---- MODULE Spec2Model ----
(***************************************************************************)
(* Model of the juniper-syslog-filter pipeline stages (src/modules).       *)
(*                                                                         *)
(* Every stage is a file-to-file transform.  A CSV file is modelled by the *)
(* list of rows csv.reader yields for it (the first row is the header); a  *)
(* text field is a sequence of one-character strings, so that substring    *)
(* search, splitting, stripping and integer parsing are computed the way   *)
(* Python computes them.  Each stage has its own state variable (a record  *)
(* holding the locals of the function) and its own specification.          *)
(***************************************************************************)
EXTENDS Integers, Sequences, FiniteSets, TLC

VARIABLES mrg,    \* merge_files.merge_csv_files
          fk,     \* filter_keyword.filter_keyword
          fcm,    \* filter_critical_and_merge.filter_and_merge_critical and its callers
          cls,    \* classify_ip.classify_ip_address
          spl,    \* split_ip.split_routing
          stg,    \* the one-to-one stages applied to one input file
          rte,    \* extract_routing: the routing field of one data row
          red,    \* reduce_columns.reduce_csv_columns, applied once and again
          fcr,    \* filter_critical.filter_critical
          arc,    \* extract.extract_all_zips and Phase 1 of run.main
          run,    \* a whole pipeline run: main of run.py and of run_with_args.py
          ord     \* the order in which a stage takes the files of its list

vars == <<mrg, fk, fcm, cls, spl, stg, rte, red, fcr, arc, run, ord>>

Idle == [pc |-> "idle"] \* a stage that is not run by the specification at hand

\* each specification runs one stage: the others stay idle and are left alone
mrg_only == fk = Idle /\ fcm = Idle /\ cls = Idle /\ spl = Idle /\ stg = Idle /\ rte = Idle /\ red = Idle /\ fcr = Idle /\ arc = Idle /\ run = Idle /\ ord = Idle
mrg_frame == <<fk, fcm, cls, spl, stg, rte, red, fcr, arc, run, ord>>
fk_only == mrg = Idle /\ fcm = Idle /\ cls = Idle /\ spl = Idle /\ stg = Idle /\ rte = Idle /\ red = Idle /\ fcr = Idle /\ arc = Idle /\ run = Idle /\ ord = Idle
fk_frame == <<mrg, fcm, cls, spl, stg, rte, red, fcr, arc, run, ord>>
fcm_only == mrg = Idle /\ fk = Idle /\ cls = Idle /\ spl = Idle /\ stg = Idle /\ rte = Idle /\ red = Idle /\ fcr = Idle /\ arc = Idle /\ run = Idle /\ ord = Idle
fcm_frame == <<mrg, fk, cls, spl, stg, rte, red, fcr, arc, run, ord>>
cls_only == mrg = Idle /\ fk = Idle /\ fcm = Idle /\ spl = Idle /\ stg = Idle /\ rte = Idle /\ red = Idle /\ fcr = Idle /\ arc = Idle /\ run = Idle /\ ord = Idle
cls_frame == <<mrg, fk, fcm, spl, stg, rte, red, fcr, arc, run, ord>>
spl_only == mrg = Idle /\ fk = Idle /\ fcm = Idle /\ cls = Idle /\ stg = Idle /\ rte = Idle /\ red = Idle /\ fcr = Idle /\ arc = Idle /\ run = Idle /\ ord = Idle
spl_frame == <<mrg, fk, fcm, cls, stg, rte, red, fcr, arc, run, ord>>
stg_only == mrg = Idle /\ fk = Idle /\ fcm = Idle /\ cls = Idle /\ spl = Idle /\ rte = Idle /\ red = Idle /\ fcr = Idle /\ arc = Idle /\ run = Idle /\ ord = Idle
stg_frame == <<mrg, fk, fcm, cls, spl, rte, red, fcr, arc, run, ord>>
rte_only == mrg = Idle /\ fk = Idle /\ fcm = Idle /\ cls = Idle /\ spl = Idle /\ stg = Idle /\ red = Idle /\ fcr = Idle /\ arc = Idle /\ run = Idle /\ ord = Idle
rte_frame == <<mrg, fk, fcm, cls, spl, stg, red, fcr, arc, run, ord>>
red_only == mrg = Idle /\ fk = Idle /\ fcm = Idle /\ cls = Idle /\ spl = Idle /\ stg = Idle /\ rte = Idle /\ fcr = Idle /\ arc = Idle /\ run = Idle /\ ord = Idle
red_frame == <<mrg, fk, fcm, cls, spl, stg, rte, fcr, arc, run, ord>>
fcr_only == mrg = Idle /\ fk = Idle /\ fcm = Idle /\ cls = Idle /\ spl = Idle /\ stg = Idle /\ rte = Idle /\ red = Idle /\ arc = Idle /\ run = Idle /\ ord = Idle
fcr_frame == <<mrg, fk, fcm, cls, spl, stg, rte, red, arc, run, ord>>
arc_only == mrg = Idle /\ fk = Idle /\ fcm = Idle /\ cls = Idle /\ spl = Idle /\ stg = Idle /\ rte = Idle /\ red = Idle /\ fcr = Idle /\ run = Idle /\ ord = Idle
arc_frame == <<mrg, fk, fcm, cls, spl, stg, rte, red, fcr, run, ord>>
run_only == mrg = Idle /\ fk = Idle /\ fcm = Idle /\ cls = Idle /\ spl = Idle /\ stg = Idle /\ rte = Idle /\ red = Idle /\ fcr = Idle /\ arc = Idle /\ ord = Idle
run_frame == <<mrg, fk, fcm, cls, spl, stg, rte, red, fcr, arc, ord>>
ord_only == mrg = Idle /\ fk = Idle /\ fcm = Idle /\ cls = Idle /\ spl = Idle /\ stg = Idle /\ rte = Idle /\ red = Idle /\ fcr = Idle /\ arc = Idle /\ run = Idle
ord_frame == <<mrg, fk, fcm, cls, spl, stg, rte, red, fcr, arc, run>>

None == "None"          \* Python None

(***************************************************************************)
(* Generic helpers                                                         *)
(***************************************************************************)
RECURSIVE SeqsUpTo(_, _)
\* all sequences over S of length 0..n
SeqsUpTo(S, n) ==
    IF n = 0 THEN {<<>>}
    ELSE LET shorter == SeqsUpTo(S, n - 1)
         IN  shorter \cup {Append(s, x) : s \in {t \in shorter : Len(t) = n - 1}, x \in S}

\* the sequences that list every element of the finite set S exactly once
Perms(S) ==
    {p \in [1..Cardinality(S) -> S] : \A i, j \in 1..Cardinality(S) : p[i] = p[j] => i = j}

\* every list of distinct elements of S (a list of distinct paths)
DistinctLists(S) == UNION {Perms(T) : T \in SUBSET S}

RECURSIVE Flatten(_)
\* concatenation of a sequence of sequences
Flatten(ss) == IF ss = <<>> THEN <<>> ELSE Head(ss) \o Flatten(Tail(ss))

\* ceil(a / b) for a >= 0, b >= 1
CeilDiv(a, b) == (a + b - 1) \div b

(***************************************************************************)
(* merge_files.py                                                          *)
(***************************************************************************)
MaxMergeFiles == 2      \* paths are 1..MaxMergeFiles, ordered as Path orders them
MaxMergeRows  == 2      \* data rows per input file
MaxCeiling    == 3      \* max_rows is drawn from 1..MaxCeiling

MergeHeaders == {"hA", "hB"}

\* merge_csv_files never looks into a data row, so a data row is modelled by
\* where it comes from: each row of each input file is distinct from all others
MergeRow(path, k) == [file |-> path, line |-> k]

\* what stands for the content of a file whose bytes are not UTF-8: reading
\* it raises UnicodeDecodeError
NotUtf8 == "not UTF-8"

\* an input file: absent, or the rows csv.reader yields (<<>>: not even a header)
MergeFileVals(path) ==
    {[exists |-> FALSE, lines |-> <<>>]}
    \cup {[exists |-> TRUE, lines |-> <<>>]}
    \cup {[exists |-> TRUE, lines |-> <<NotUtf8>>]}
    \cup {[exists |-> TRUE, lines |-> <<h>> \o [k \in 1..n |-> MergeRow(path, k)]] :
             h \in MergeHeaders, n \in 0..MaxMergeRows}

Digits == <<"0", "1", "2", "3", "4", "5", "6", "7", "8", "9">>

RECURSIVE DecStr(_)
\* str(n) for n >= 0
DecStr(n) == IF n < 10 THEN <<Digits[n + 1]>> ELSE Append(DecStr(n \div 10), Digits[(n % 10) + 1])

RECURSIVE ZeroPad(_, _)
ZeroPad(s, width) == IF Len(s) >= width THEN s ELSE ZeroPad(<<"0">> \o s, width)

\* f"merged_{current_file_index:03d}.csv"
output_filename(current_file_index) ==
    [prefix |-> "merged_", index |-> ZeroPad(DecStr(current_file_index), 3), ext |-> ".csv"]

RECURSIVE InsertSorted(_, _)
InsertSorted(x, s) ==
    IF s = <<>> THEN <<x>>
    ELSE IF x <= Head(s) THEN <<x>> \o s
    ELSE <<Head(s)>> \o InsertSorted(x, Tail(s))

\* the list in the order the caller passed it
unsorted(input_files) == input_files

RECURSIVE sorted(_)
\* sorted(input_files)
sorted(input_files) ==
    IF input_files = <<>> THEN <<>>
    ELSE InsertSorted(Head(input_files), sorted(Tail(input_files)))

\* "if current_writer is None or current_row_count >= max_rows" with > for >=
NeedNewFileOffByOne(current_writer, current_row_count, max_rows) ==
    current_writer = <<>> \/ current_row_count > max_rows

\* "if current_writer is None or current_row_count >= max_rows"
NeedNewFile(current_writer, current_row_count, max_rows) ==
    current_writer = <<>> \/ current_row_count >= max_rows

\* the elements of a list
Range(s) == {s[i] : i \in DOMAIN s}

MergeInit ==
    /\ \E fl \in DistinctLists(1..MaxMergeFiles), mr \in 1..MaxCeiling :
       \E fs \in [Range(fl) -> UNION {MergeFileVals(p) : p \in 1..MaxMergeFiles}] :
          /\ \A p \in Range(fl) : fs[p] \in MergeFileVals(p)
          /\ mrg = [pc |-> "start",
                    input_files |-> fl, fs |-> fs, max_rows |-> mr,
                    files |-> <<>>, fi |-> 0, ri |-> 0,
                    output_files |-> <<>>, disk |-> <<>>,
                    current_file_index |-> 1, current_row_count |-> 0,
                    current_writer |-> <<>>, header |-> None,
                    result |-> <<>>, raised |-> None]
    /\ mrg_only

\* current_writer is <<>> for None and <<output_path>> for an open chunk file;
\* result is the returned list and raised the exception that left the function.

\* "if not input_files: return []", else the loop starts over sorted(input_files)
merge_start ==
    /\ mrg.pc = "start"
    /\ IF mrg.input_files = <<>>
       THEN mrg' = [mrg EXCEPT !.pc = "done", !.result = <<>>]
       ELSE mrg' = [mrg EXCEPT !.pc = "file", !.files = sorted(mrg.input_files), !.fi = 1]
    /\ UNCHANGED mrg_frame

\* one iteration of "for input_file in sorted(input_files)" up to the header,
\* or the code after the loop when the list is exhausted
merge_next_file ==
    /\ mrg.pc = "file"
    /\ IF mrg.fi > Len(mrg.files)
       THEN mrg' = [mrg EXCEPT !.pc = "done", !.result = mrg.output_files]
       ELSE LET f == mrg.fs[mrg.files[mrg.fi]] IN
            IF ~f.exists
            THEN \* FileNotFoundError, re-raised as MergeError by the handler
                 mrg' = [mrg EXCEPT !.pc = "error", !.raised = "MergeError"]
            ELSE IF f.lines = <<>>
            THEN \* file_header is None: continue
                 mrg' = [mrg EXCEPT !.fi = @ + 1]
            ELSE IF f.lines[1] = NotUtf8
            THEN \* UnicodeDecodeError in next(reader), re-raised as MergeError
                 mrg' = [mrg EXCEPT !.pc = "error", !.raised = "MergeError"]
            ELSE mrg' = [mrg EXCEPT !.pc = "rows", !.ri = 2,
                                    !.header = IF @ = None THEN f.lines[1] ELSE @]
    /\ UNCHANGED mrg_frame

\* one iteration of "for row in reader"
merge_row ==
    /\ mrg.pc = "rows"
    /\ LET lines == mrg.fs[mrg.files[mrg.fi]].lines IN
       IF mrg.ri > Len(lines)
       THEN mrg' = [mrg EXCEPT !.pc = "file", !.fi = @ + 1]
       ELSE LET row  == lines[mrg.ri]
                open == NeedNewFile(mrg.current_writer, mrg.current_row_count, mrg.max_rows)
                path == IF open THEN output_filename(mrg.current_file_index)
                        ELSE mrg.current_writer[1]
                \* open(output_path, 'w') truncates, then the header is written
                d1   == IF open THEN (path :> <<mrg.header>>) @@ mrg.disk ELSE mrg.disk
                cnt  == IF open THEN 0 ELSE mrg.current_row_count
            IN mrg' = [mrg EXCEPT
                         !.output_files = IF open THEN Append(@, path) ELSE @,
                         !.current_file_index = IF open THEN @ + 1 ELSE @,
                         !.current_writer = <<path>>,
                         !.disk = [d1 EXCEPT ![path] = Append(@, row)],
                         !.current_row_count = cnt + 1,
                         !.ri = @ + 1]
    /\ UNCHANGED mrg_frame

MergeNext == merge_start \/ merge_next_file \/ merge_row

SpecMerge == MergeInit /\ [][MergeNext]_vars

\* what the merge must produce, computed from the inputs alone
RECURSIVE DataRowsFrom(_, _)
\* data rows of the listed files, taken in ascending path order from path p on
DataRowsFrom(m, p) ==
    IF p > MaxMergeFiles THEN <<>>
    ELSE (IF p \in Range(m.input_files) /\ m.fs[p].lines # <<>>
          THEN Tail(m.fs[p].lines) ELSE <<>>) \o DataRowsFrom(m, p + 1)

\* data rows of the chunk files, read back in the returned order
ChunkRows(m) == [k \in DOMAIN m.output_files |-> Tail(m.disk[m.output_files[k]])]

MergeReturned == mrg.pc = "done"

\* C1: the data rows of the returned chunks, read in the returned order, are
\* the data rows of all inputs in sorted-path order, and the k-th returned
\* chunk is named merged_<k zero-padded to three digits>.csv.
C1_MergePreservesRows ==
    MergeReturned =>
        /\ Flatten(ChunkRows(mrg)) = DataRowsFrom(mrg, 1)
        /\ \A k \in DOMAIN mrg.result :
              /\ mrg.result[k].prefix = "merged_" /\ mrg.result[k].ext = ".csv"
              /\ Len(mrg.result[k].index) = 3
              /\ mrg.result[k].index = <<"0", "0", Digits[k + 1]>>

C1_Witness ==
    /\ MergeReturned
    /\ Len(mrg.input_files) = 2 /\ mrg.input_files[1] > mrg.input_files[2]
    /\ Len(mrg.result) >= 2
    /\ \A p \in Range(mrg.input_files) : Len(mrg.fs[p].lines) >= 2

\* number of data rows held by a chunk file (its first row is the header)
ChunkSize(m, path) == Len(m.disk[path]) - 1

\* C2: ceil(T / max_rows) chunks are written, all full except the last, which
\* holds 1..max_rows rows; no chunk ever exceeds max_rows; T = 0 writes nothing
\* and returns the empty list.
C2_ChunkSizes ==
    LET T == Len(DataRowsFrom(mrg, 1)) IN
    /\ mrg.pc # "start" => \A path \in DOMAIN mrg.disk : ChunkSize(mrg, path) <= mrg.max_rows
    /\ MergeReturned =>
          /\ Len(mrg.result) = CeilDiv(T, mrg.max_rows)
          /\ DOMAIN mrg.disk = Range(mrg.result)
          /\ \A k \in DOMAIN mrg.result :
                IF k < Len(mrg.result)
                THEN ChunkSize(mrg, mrg.result[k]) = mrg.max_rows
                ELSE ChunkSize(mrg, mrg.result[k]) \in 1..mrg.max_rows
          /\ T = 0 => mrg.result = <<>> /\ DOMAIN mrg.disk = {}

\* two 2-row files with ceiling 3 give chunks of 3 and 1 rows, in that order
C2_Witness ==
    /\ MergeReturned
    /\ mrg.max_rows = 3
    /\ Len(mrg.input_files) = 2
    /\ \A p \in Range(mrg.input_files) : Len(mrg.fs[p].lines) = 3
    /\ Len(mrg.result) = 2
    /\ ChunkSize(mrg, mrg.result[1]) = 3 /\ ChunkSize(mrg, mrg.result[2]) = 1

(***************************************************************************)
(* filter_keyword.py                                                       *)
(***************************************************************************)
MaxFkFiles == 2     \* csv_files lists the paths 1..n, n <= MaxFkFiles
MaxFkRows  == 2     \* data rows per input file

\* Python's "sub in s" on strings
Contains(sub, s) == \E i \in 0..(Len(s) - Len(sub)) : SubSeq(s, i + 1, i + Len(sub)) = sub

\* str.lower() on the letters that occur in the model's rows
Lower(s) == [i \in DOMAIN s |-> CASE s[i] = "R" -> "r" [] s[i] = "T" -> "t" [] OTHER -> s[i]]

\* the input schema; a column name is a one-token string
InputSchema ==
    <<(<<"Timestamp">>), (<<"Hostname">>), (<<"AppName">>), (<<"SeverityLevel">>),
      (<<"Severity">>), (<<"LogType">>), (<<"Message">>)>>

\* data rows: the fields before Message, then Message (absent from a short row)
FkRow(AppName, Message) ==
    <<(<<"t", "s">>), (<<"f", "w">>), AppName, (<<"4">>), (<<"I">>), (<<"N">>)>> \o Message

FkRowVals ==
    {FkRow(<<"I", "D", "P">>, <<(<<"x", "R", "T", ":">>)>>),   \* Message contains RT
     FkRow(<<"R", "T">>, <<(<<"r", "t">>)>>),                  \* only AppName holds RT
     FkRow(<<"R", "T">>, <<>>)}                                \* six fields: no Message

FkKeywords == {<<"R", "T">>, <<"t">>}

\* a header of seven columns none of which is Message
NoMessageSchema == SubSeq(InputSchema, 1, 6) \o <<(<<"Text">>)>>

FkFileVals ==
    {[exists |-> FALSE, lines |-> <<>>]}
    \cup {[exists |-> TRUE, lines |-> <<>>]}
    \cup {[exists |-> TRUE, lines |-> <<InputSchema>> \o d] : d \in SeqsUpTo(FkRowVals, MaxFkRows)}
    \cup {[exists |-> TRUE, lines |-> <<NoMessageSchema, row>>] : row \in FkRowVals}

\* "len(row) > 6 and keyword in row[6]" with the case of the letters ignored
RowMatchesIgnoreCase(row, keyword) ==
    Len(row) > 6 /\ Contains(Lower(keyword), Lower(row[7]))

\* "len(row) > 6 and keyword in row[6]"
RowMatches(row, keyword) == Len(row) > 6 /\ Contains(keyword, row[7])

RECURSIVE FilteredRows(_, _)
\* the rows appended to filtered_rows by "for row in reader"
FilteredRows(rows, keyword) ==
    IF rows = <<>> THEN <<>>
    ELSE (IF RowMatches(Head(rows), keyword) THEN <<Head(rows)>> ELSE <<>>)
         \o FilteredRows(Tail(rows), keyword)

\* filter_csv_by_keyword: the exception raised (None if it returns), the rows
\* written to output_path (<<>> with written FALSE: no file) and the return value
filter_csv_by_keyword(file, keyword) ==
    IF ~file.exists
    THEN [raised |-> "FileNotFoundError", written |-> FALSE, rows |-> <<>>, count |-> 0]
    ELSE IF file.lines = <<>>
    THEN [raised |-> "FilterError", written |-> FALSE, rows |-> <<>>, count |-> 0]
    ELSE LET header        == Head(file.lines)
             filtered_rows == FilteredRows(Tail(file.lines), keyword)
         IN  [raised |-> None, written |-> TRUE, rows |-> <<header>> \o filtered_rows,
              count |-> Len(filtered_rows)]

FilterInit ==
    /\ \E n \in 0..MaxFkFiles, kw \in FkKeywords :
       \E fs \in [1..n -> FkFileVals] :
          fk = [pc |-> "start", csv_files |-> [i \in 1..n |-> i], fs |-> fs, keyword |-> kw,
                i |-> 0, out |-> <<>>,
                total_filtered |-> 0, success_count |-> 0, error_count |-> 0,
                result |-> 0, raised |-> None]
    /\ fk_only

\* "if not csv_files: return 0", else the counters are reset and the loop starts
filter_start ==
    /\ fk.pc = "start"
    /\ IF fk.csv_files = <<>>
       THEN fk' = [fk EXCEPT !.pc = "done", !.result = 0]
       ELSE fk' = [fk EXCEPT !.pc = "loop", !.i = 1]
    /\ UNCHANGED fk_frame

\* a handler that catches FilterError only
CaughtPerFileFilterErrorOnly(raised) == raised = "FilterError"

\* "except (FilterError, FileNotFoundError) as e:"
CaughtPerFile(raised) == raised \in {"FilterError", "FileNotFoundError"}

\* one iteration of "for csv_path in csv_files"; output_path is
\* output_dir / csv_path.name, and both exceptions are caught and counted
filter_file ==
    /\ fk.pc = "loop"
    /\ fk.i <= Len(fk.csv_files)
    /\ LET csv_path == fk.csv_files[fk.i]
           r        == filter_csv_by_keyword(fk.fs[csv_path], fk.keyword)
       IN  IF r.raised = None
           THEN fk' = [fk EXCEPT !.out = (csv_path :> r.rows) @@ @,
                                 !.total_filtered = @ + r.count,
                                 !.success_count = @ + 1,
                                 !.i = @ + 1]
           ELSE IF CaughtPerFile(r.raised)
           THEN fk' = [fk EXCEPT !.error_count = @ + 1, !.i = @ + 1]
           ELSE fk' = [fk EXCEPT !.pc = "done", !.raised = r.raised]
    /\ UNCHANGED fk_frame

\* "return total_filtered"
filter_return ==
    /\ fk.pc = "loop"
    /\ fk.i > Len(fk.csv_files)
    /\ fk' = [fk EXCEPT !.pc = "done", !.result = fk.total_filtered]
    /\ UNCHANGED fk_frame

FilterNext == filter_start \/ filter_file \/ filter_return

SpecFilter == FilterInit /\ [][FilterNext]_vars

\* the Message field of a row of a table with the input schema: column 7
HasMessage(row) == Len(row) >= Len(InputSchema)
MessageOf(row)  == row[Len(InputSchema)]

\* indices of the data rows of a table whose Message contains the keyword
MatchingIndices(lines, keyword) ==
    {k \in 2..Len(lines) : HasMessage(lines[k]) /\ Contains(keyword, MessageOf(lines[k]))}

\* the tables filter_keyword can read: existing files with a header
Readable(f) == f.exists /\ f.lines # <<>>

\* number of rows of file p that the claim counts
MatchCount(f, p) ==
    IF Readable(f.fs[p]) THEN Cardinality(MatchingIndices(f.fs[p].lines, f.keyword)) ELSE 0

RECURSIVE MatchTotal(_, _)
MatchTotal(f, S) ==
    IF S = {} THEN 0
    ELSE LET p == CHOOSE q \in S : TRUE IN MatchCount(f, p) + MatchTotal(f, S \ {p})

FilterReturned == fk.pc = "done"

\* s is the subsequence of lines at exactly the indices I, in increasing order
IsSelection(s, lines, I) ==
    /\ Len(s) = Cardinality(I)
    /\ \E pos \in [1..Len(s) -> I] :
          /\ \A a, b \in 1..Len(s) : a < b => pos[a] < pos[b]
          /\ \A a \in 1..Len(s) : s[a] = lines[pos[a]]

C16_AsClaimed ==
    FilterReturned =>
        \A p \in Range(fk.csv_files) :
            (Readable(fk.fs[p]) /\ MatchCount(fk, p) = 0) => p \notin DOMAIN fk.out

\* the header of the table has no Message column
LacksMessage(f) == Readable(f) /\ \A c \in DOMAIN f.lines[1] : f.lines[1][c] # <<"Message">>

\* C17 (as claimed): when the Message field is absent from the schema of an
\* input table, filter_keyword fails with a FilterError instead of returning
\* a count.
C17_AsClaimed ==
    (fk.pc = "done" /\ \E p \in Range(fk.csv_files) : LacksMessage(fk.fs[p]))
        => fk.raised = "FilterError"

(***************************************************************************)
(* filter_critical_and_merge.py, called by run.py and run_gui.py           *)
(***************************************************************************)
MaxFcmFiles == 2    \* input_files lists the paths 1..n, n <= MaxFcmFiles
MaxFcmRows  == 2    \* data rows per input file

CRITICAL == <<"C", "R", "I", "T", "I", "C", "A", "L">>
WARNING  == <<"W", "A", "R", "N", "I", "N", "G">>
INFO     == <<"I", "N", "F", "O">>

\* the options of the severity selectbox of run_gui.py
SeverityOptions == {CRITICAL, WARNING, INFO}

\* values of the Severity field of a row: the target, the target in lower
\* case, a value the target is a proper substring of
FcmSeverities == {CRITICAL, <<"c", "r", "i", "t", "i", "c", "a", "l">>, <<"N", "O", "N">> \o CRITICAL}

FcmSchema   == <<(<<"Timestamp">>), (<<"Severity">>), (<<"Message">>)>>
FcmNoSevSchema == <<(<<"Timestamp">>), (<<"Message">>)>>

\* a data row of file path at line k; its Timestamp tells the rows apart
FcmRow(path, k, Severity) ==
    <<(<<"t", Digits[path + 1], Digits[k + 1]>>), Severity, (<<"m">>)>>

\* what an input file can be: absent, empty, a table without a Severity
\* column, or a table whose rows have the listed Severity values
FcmShapes ==
    {<<"absent", <<>>>>, <<"empty", <<>>>>, <<"no_severity", <<>>>>}
    \cup {<<"table", sv>> : sv \in SeqsUpTo(FcmSeverities, MaxFcmRows)}

FcmFile(path, shape) ==
    IF shape[1] = "absent" THEN [exists |-> FALSE, lines |-> <<>>]
    ELSE IF shape[1] = "empty" THEN [exists |-> TRUE, lines |-> <<>>]
    ELSE IF shape[1] = "no_severity"
    THEN [exists |-> TRUE, lines |-> <<FcmNoSevSchema, (<<(<<"t">>), (<<"m">>)>>)>>]
    ELSE [exists |-> TRUE,
          lines |-> <<FcmSchema>> \o [k \in 1..Len(shape[2]) |-> FcmRow(path, k, shape[2][k])]]

\* pd.read_csv(input_path, encoding="utf-8", keep_default_na=False) on a file
\* whose rows are as wide as its header and hold no numeric-looking column
read_csv(file) ==
    IF ~file.exists THEN [raised |-> "FileNotFoundError", columns |-> <<>>, rows |-> <<>>]
    ELSE IF file.lines = <<>> THEN [raised |-> "EmptyDataError", columns |-> <<>>, rows |-> <<>>]
    ELSE [raised |-> None, columns |-> Head(file.lines), rows |-> Tail(file.lines)]

\* position of a column in df.columns (0: not a column)
ColumnIndex(columns, name) ==
    IF \E c \in DOMAIN columns : columns[c] = name
    THEN CHOOSE c \in DOMAIN columns : columns[c] = name /\ \A b \in 1..(c - 1) : columns[b] # name
    ELSE 0

\* the comparison df["Severity"] == "CRITICAL" on one value
SeverityEquals(value, target) == value = target

RECURSIVE SelectBySeverity(_, _, _)
\* df[df["Severity"] == target]: the rows kept, in the order of df
SelectBySeverity(rows, c, target) ==
    IF rows = <<>> THEN <<>>
    ELSE (IF SeverityEquals(Head(rows)[c], target) THEN <<Head(rows)>> ELSE <<>>)
         \o SelectBySeverity(Tail(rows), c, target)

\* "if not critical_dataframes: return None" left out: the merge is always written
NothingToMergeNever(critical_dataframes) == FALSE

\* "if not critical_dataframes: return None"
NothingToMerge(critical_dataframes) == critical_dataframes = <<>>

\* kwargs is <<>> for the call of run.py (no severity_filter) and <<value>> for
\* the call of run_gui.py (severity_filter=value); out is <<>> while output_file
\* does not exist and <<table>> once it is written
FcmInit ==
    /\ \E n \in 0..MaxFcmFiles, kw \in {<<>>} \cup {<<t>> : t \in SeverityOptions} :
       \E shape \in [1..n -> FcmShapes] :
          /\ fcm = [pc |-> "start", input_files |-> [i \in 1..n |-> i],
                    fs |-> [p \in 1..n |-> FcmFile(p, shape[p])],
                    kwargs |-> kw, i |-> 0,
                    critical_dataframes |-> <<>>, columns |-> <<>>,
                    total_rows |-> 0, critical_rows |-> 0,
                    out |-> <<>>, result |-> None, raised |-> None]
    /\ fcm_only

\* the call itself: the function has no severity_filter parameter, so the call
\* of run_gui.py raises TypeError before the body runs; otherwise the body
\* starts: "if not input_files: return None"
fcm_call ==
    /\ fcm.pc = "start"
    /\ IF fcm.kwargs # <<>>
       THEN fcm' = [fcm EXCEPT !.pc = "call_failed", !.raised = "TypeError"]
       ELSE IF fcm.input_files = <<>>
       THEN fcm' = [fcm EXCEPT !.pc = "done", !.result = None]
       ELSE fcm' = [fcm EXCEPT !.pc = "loop", !.i = 1]
    /\ UNCHANGED fcm_frame

\* one iteration of "for input_path in input_files"
fcm_file ==
    /\ fcm.pc = "loop"
    /\ fcm.i <= Len(fcm.input_files)
    /\ LET df == read_csv(fcm.fs[fcm.input_files[fcm.i]])
           c  == ColumnIndex(df.columns, <<"Severity">>)
       IN  IF df.raised # None \/ c = 0
           THEN fcm' = [fcm EXCEPT !.pc = "done", !.raised = "FilterCriticalError"]
           ELSE LET critical_df == SelectBySeverity(df.rows, c, CRITICAL) IN
                fcm' = [fcm EXCEPT
                          !.total_rows = @ + Len(df.rows),
                          !.critical_dataframes =
                              IF Len(critical_df) > 0 THEN Append(@, critical_df) ELSE @,
                          !.columns = IF Len(critical_df) > 0 /\ @ = <<>> THEN df.columns ELSE @,
                          !.critical_rows = @ + Len(critical_df),
                          !.i = @ + 1]
    /\ UNCHANGED fcm_frame

\* after the loop: return None, or pd.concat and to_csv
fcm_finish ==
    /\ fcm.pc = "loop"
    /\ fcm.i > Len(fcm.input_files)
    /\ IF NothingToMerge(fcm.critical_dataframes)
       THEN fcm' = [fcm EXCEPT !.pc = "done", !.result = None]
       ELSE LET merged_df == Flatten(fcm.critical_dataframes) IN
            fcm' = [fcm EXCEPT !.pc = "done",
                               !.out = <<(<<fcm.columns>> \o merged_df)>>,
                               !.result = "output_file"]
    /\ UNCHANGED fcm_frame

FcmNext == fcm_call \/ fcm_file \/ fcm_finish

SpecFcm == FcmInit /\ [][FcmNext]_vars

\* the target severity the run is configured with: the selection passed by
\* run_gui.py, CRITICAL (the default of the configuration) for run.py
ConfiguredTarget(f) == IF f.kwargs = <<>> THEN CRITICAL ELSE f.kwargs[1]

\* an input table that can be read and has a Severity field
HasSeverityField(file) ==
    /\ file.exists /\ file.lines # <<>>
    /\ \E c \in DOMAIN Head(file.lines) : Head(file.lines)[c] = <<"Severity">>

SeverityOf(lines, k) == lines[k][CHOOSE c \in DOMAIN lines[1] : lines[1][c] = <<"Severity">>]

RECURSIVE RowsWithSeverity(_, _, _)
\* the rows of the files from position i of the list on whose Severity is the
\* target: file after file, each file's rows in their order
RowsWithSeverity(f, i, target) ==
    IF i > Len(f.input_files) THEN <<>>
    ELSE LET lines == f.fs[f.input_files[i]].lines
             RECURSIVE From(_)
             From(k) == IF k > Len(lines) THEN <<>>
                        ELSE (IF SeverityOf(lines, k) = target THEN <<lines[k]>> ELSE <<>>)
                             \o From(k + 1)
         IN  From(2) \o RowsWithSeverity(f, i + 1, target)

AllHaveSeverity(f) ==
    /\ f.input_files # <<>>
    /\ \A p \in Range(f.input_files) : HasSeverityField(f.fs[p])

FcmOver == fcm.pc \in {"done", "call_failed"}

\* C4: given input tables that all contain a Severity field and a configured
\* target severity that some row has (no such row: C5), exactly one output
\* file is written and its rows are the input rows whose Severity equals the
\* target, in input-file order and then row order.
C4_AsClaimed ==
    (FcmOver /\ AllHaveSeverity(fcm)
             /\ RowsWithSeverity(fcm, 1, ConfiguredTarget(fcm)) # <<>>) =>
        /\ Len(fcm.out) = 1
        /\ Tail(fcm.out[1]) = RowsWithSeverity(fcm, 1, ConfiguredTarget(fcm))

\* C5: when the body of filter_and_merge_critical has run and no row of any
\* input file has the target severity, it returns None, writes no output file
\* and raises nothing; it raises only when an input table is structurally
\* unusable (absent, empty, or without a Severity column).
C5_NoOutputSignal ==
    fcm.pc = "done" =>
        /\ (AllHaveSeverity(fcm) /\ RowsWithSeverity(fcm, 1, CRITICAL) = <<>>) =>
              /\ fcm.result = None
              /\ fcm.out = <<>>
              /\ fcm.raised = None
        /\ fcm.raised # None =>
              \E p \in Range(fcm.input_files) : ~HasSeverityField(fcm.fs[p])

\* two tables with rows, none of them CRITICAL, have been filtered
C5_Witness ==
    /\ fcm.pc = "done"
    /\ Len(fcm.input_files) = 2
    /\ AllHaveSeverity(fcm)
    /\ \A p \in Range(fcm.input_files) : Len(fcm.fs[p].lines) = 3
    /\ RowsWithSeverity(fcm, 1, CRITICAL) = <<>>
    /\ fcm.result = None /\ fcm.out = <<>>

(***************************************************************************)
(* Python string operations on sequences of characters                     *)
(***************************************************************************)
Whitespace == {" ", "\t"}

RECURSIVE lstrip(_)
lstrip(s) == IF s # <<>> /\ Head(s) \in Whitespace THEN lstrip(Tail(s)) ELSE s

RECURSIVE rstrip(_)
rstrip(s) == IF s # <<>> /\ s[Len(s)] \in Whitespace THEN rstrip(SubSeq(s, 1, Len(s) - 1)) ELSE s

\* s.strip()
strip(s) == rstrip(lstrip(s))

\* does sep occur in s at position i (1-based)?
OccursAt(s, sep, i) == i + Len(sep) - 1 <= Len(s) /\ SubSeq(s, i, i + Len(sep) - 1) = sep

RECURSIVE split(_, _)
\* s.split(sep) for a non-empty sep: cut at the leftmost occurrence, go on with the rest
split(s, sep) ==
    IF \E i \in 1..Len(s) : OccursAt(s, sep, i)
    THEN LET i == CHOOSE j \in 1..Len(s) :
                     OccursAt(s, sep, j) /\ \A h \in 1..(j - 1) : ~OccursAt(s, sep, h)
         IN  <<SubSeq(s, 1, i - 1)>> \o split(SubSeq(s, i + Len(sep), Len(s)), sep)
    ELSE <<s>>

RECURSIVE join(_, _)
\* sep.join(parts)
join(parts, sep) ==
    IF parts = <<>> THEN <<>>
    ELSE IF Len(parts) = 1 THEN parts[1]
    ELSE parts[1] \o sep \o join(Tail(parts), sep)

IsDigit(c) == \E d \in DOMAIN Digits : Digits[d] = c
DigitValue(c) == (CHOOSE d \in DOMAIN Digits : Digits[d] = c) - 1

RECURSIVE DecValue(_)
\* the number written by a sequence of digits and underscores
DecValue(s) ==
    IF s = <<>> THEN 0
    ELSE IF s[Len(s)] = "_" THEN DecValue(SubSeq(s, 1, Len(s) - 1))
    ELSE 10 * DecValue(SubSeq(s, 1, Len(s) - 1)) + DigitValue(s[Len(s)])

\* the text int() parses: surrounding whitespace stripped, an optional sign
\* taken off; what is left must be digits, single underscores allowed between
IntBody(s) ==
    LET t == strip(s) IN IF t # <<>> /\ t[1] \in {"+", "-"} THEN Tail(t) ELSE t

\* int(s) raises ValueError unless this holds
IntParses(s) ==
    LET u == IntBody(s) IN
    /\ u # <<>>
    /\ \A i \in DOMAIN u : IsDigit(u[i]) \/ u[i] = "_"
    /\ IsDigit(u[1]) /\ IsDigit(u[Len(u)])
    /\ \A i \in 1..(Len(u) - 1) : ~(u[i] = "_" /\ u[i + 1] = "_")

\* int(s) when it parses
int(s) ==
    LET t == strip(s) IN
    IF t # <<>> /\ t[1] = "-" THEN 0 - DecValue(IntBody(s)) ELSE DecValue(IntBody(s))

(***************************************************************************)
(* classify_ip.py: is_private_ip, classify_ip_address                      *)
(***************************************************************************)
MaxOctet == 255     \* octets of the well-formed addresses range over 0..MaxOctet
MaxParts == 5       \* dot-separated parts of the other address texts

\* the private ranges, with the upper end of 172.16.0.0/12 left out
InPrivateRangeShort(octets) ==
    \/ octets[1] = 10
    \/ octets[1] = 172 /\ 16 <= octets[2] /\ octets[2] < 31
    \/ octets[1] = 192 /\ octets[2] = 168

\* the three tests on octets[0], octets[1]
InPrivateRange(octets) ==
    \/ octets[1] = 10
    \/ octets[1] = 172 /\ 16 <= octets[2] /\ octets[2] <= 31
    \/ octets[1] = 192 /\ octets[2] = 168

is_private_ip(ip) ==
    IF ip = <<>> \/ strip(ip) = <<>> THEN FALSE
    ELSE LET parts == split(ip, <<".">>) IN
         IF Len(parts) # 4 THEN FALSE
         ELSE IF \E i \in 1..4 : ~IntParses(parts[i]) THEN FALSE   \* ValueError
         ELSE LET octets == [i \in 1..4 |-> int(parts[i])] IN
              IF ~(\A i \in 1..4 : 0 <= octets[i] /\ octets[i] <= 255) THEN FALSE
              ELSE InPrivateRange(octets)

PRIVATE == <<"p", "r", "i", "v", "a", "t", "e">>
GLOBAL  == <<"g", "l", "o", "b", "a", "l">>

classify_ip_address(ip) ==
    IF ip = <<>> \/ strip(ip) = <<>> THEN <<>>
    ELSE IF is_private_ip(ip) THEN PRIVATE ELSE GLOBAL

\* the last two octets of the well-formed addresses
QuadTail == <<(<<"2", "5", "5">>), (<<"2", "5", "4">>)>>

\* texts of one part of an address: octets at the borders of the ranges,
\* leading zeros, out of range, signs, blanks, underscores, letters, nothing
PartTexts ==
    {<<"1", "0">>, <<"1", "7", "2">>, <<"1", "9", "2">>, <<"1", "6">>, <<"1", "6", "8">>,
     <<"0", "1", "0">>, <<"2", "5", "6">>, <<"+", "1", "0">>, <<"-", "1">>,
     <<" ", "1", "0">>, <<"1", "0", " ">>, <<"1", "_", "0">>, <<"a">>, <<" ">>, <<>>}

TailPartTexts == {<<"1">>, <<"2", "5", "6">>, <<>>}

\* the address is a well-formed one with any first and second octet, or a
\* text of up to MaxParts dot-separated parts, the first two from PartTexts
\* and the others from TailPartTexts
ClassifyInit ==
    /\ \/ \E a \in 0..MaxOctet, b \in 0..MaxOctet :
             cls = [pc |-> "start", type |-> <<>>,
                    ip |-> join(<<DecStr(a), DecStr(b)>> \o QuadTail, <<".">>)]
       \/ \E n \in 0..2, m \in 0..(MaxParts - 2) :
          \E hs \in [1..n -> PartTexts], ts \in [1..m -> TailPartTexts] :
             /\ m > 0 => n = 2
             /\ cls = [pc |-> "start", type |-> <<>>, ip |-> join(hs \o ts, <<".">>)]
    /\ cls_only

\* src_ip_type = classify_ip_address(src_ip)
classify ==
    /\ cls.pc = "start"
    /\ cls' = [cls EXCEPT !.pc = "done", !.type = classify_ip_address(cls.ip)]
    /\ UNCHANGED cls_frame

ClassifyNext == classify

SpecClassify == ClassifyInit /\ [][ClassifyNext]_vars

\* what the claims call a valid dotted-quad address: exactly four parts, each
\* a non-empty run of decimal digits with a value in 0..255
IsOctetText(part) ==
    /\ part # <<>>
    /\ \A i \in DOMAIN part : IsDigit(part[i])
    /\ DecValue(part) <= 255

IsDottedQuad(ip) ==
    LET parts == split(ip, <<".">>) IN
    Len(parts) = 4 /\ \A i \in 1..4 : IsOctetText(parts[i])

OctetOf(ip, i) == DecValue(split(ip, <<".">>)[i])

Classified == cls.pc = "done"

\* C7: a valid dotted-quad address is "private" exactly when its first octet
\* is 10, or 172 with the second in 16..31, or 192 with the second 168; every
\* other valid address is "global".
C7_PrivateRanges ==
    (Classified /\ IsDottedQuad(cls.ip)) =>
        LET o1 == OctetOf(cls.ip, 1)
            o2 == OctetOf(cls.ip, 2)
            inRange == \/ o1 = 10
                       \/ o1 = 172 /\ o2 \in 16..31
                       \/ o1 = 192 /\ o2 = 168
        IN  cls.type = IF inRange THEN PRIVATE ELSE GLOBAL

\* 172.31.255.254, the last block of 172.16.0.0/12, has been classified private
C7_Witness ==
    /\ Classified
    /\ cls.ip = <<"1", "7", "2", ".", "3", "1", ".", "2", "5", "5", ".", "2", "5", "4">>
    /\ cls.type = PRIVATE

\* C8 (as claimed): the empty string classifies as "" and every malformed
\* non-empty string (not four dot-separated decimal octets, an octet outside
\* 0..255, non-numeric content, whitespace or sign decoration) as "global".
C8_AsClaimed ==
    Classified =>
        /\ cls.ip = <<>> => cls.type = <<>>
        /\ (cls.ip # <<>> /\ ~IsDottedQuad(cls.ip)) => cls.type = GLOBAL

(***************************************************************************)
(* split_ip.py: split_routing                                              *)
(***************************************************************************)
MaxRoutingLen == 7  \* characters of the routing field

\* characters of the routing field: a blank, the arrow, a character of an address
RoutingChars == {" ", ">", "1"}

RoutingSepBare == <<">">>       \* the arrow without its blanks
RoutingSep == <<" ", ">", " ">>

EmptyPair == <<(<<>>), (<<>>)>>

split_routing(routing) ==
    IF routing = <<>> \/ strip(routing) = <<>> THEN EmptyPair
    ELSE LET parts == split(routing, RoutingSep) IN
         IF Len(parts) = 2 THEN <<strip(parts[1]), strip(parts[2])>>
         ELSE EmptyPair

SplitInit ==
    /\ \E routing \in SeqsUpTo(RoutingChars, MaxRoutingLen) :
          spl = [pc |-> "start", routing |-> routing, src_ip |-> <<>>, dst_ip |-> <<>>]
    /\ spl_only

\* src_ip, dst_ip = split_routing(routing)
split_field ==
    /\ spl.pc = "start"
    /\ LET pair == split_routing(spl.routing) IN
       spl' = [spl EXCEPT !.pc = "done", !.src_ip = pair[1], !.dst_ip = pair[2]]
    /\ UNCHANGED spl_frame

SplitNext == split_field

SpecSplit == SplitInit /\ [][SplitNext]_vars

SplitDone == spl.pc = "done"

\* a + " > " + b
Arrowed(a, b) == a \o <<" ", ">", " ">> \o b

HasArrow(s) == Contains(<<" ", ">", " ">>, s)

\* the ways of reading the routing field as a + " > " + b
Readings(s) ==
    {ab \in {<<SubSeq(s, 1, i - 1), SubSeq(s, i + 3, Len(s))>> : i \in 1..Len(s)} :
        Len(ab[1]) + 3 + Len(ab[2]) = Len(s) /\ Arrowed(ab[1], ab[2]) = s}

ClaimedOperands(ab) ==
    /\ ab[1] # <<>> /\ ab[2] # <<>>
    /\ ~HasArrow(ab[1]) /\ ~HasArrow(ab[2])

\* C9 (as claimed): for any two non-empty strings a and b without the
\* substring " > ", split_routing(a + " > " + b) returns exactly (a, b).
C9_AsClaimed ==
    SplitDone =>
        \A ab \in Readings(spl.routing) :
            ClaimedOperands(ab) => <<spl.src_ip, spl.dst_ip>> = ab

EndsWith(s, suffix) ==
    Len(s) >= Len(suffix) /\ SubSeq(s, Len(s) - Len(suffix) + 1, Len(s)) = suffix

Trimmed(s) == s # <<>> /\ s[1] \notin Whitespace /\ s[Len(s)] \notin Whitespace

\* C9: for any two non-empty strings a and b that have no leading or trailing
\* whitespace and no substring " > ", a not ending in " >",
\* split_routing(a + " > " + b) returns exactly (a, b).
C9_RoundTrip ==
    SplitDone =>
        \A ab \in Readings(spl.routing) :
            (/\ ClaimedOperands(ab)
             /\ Trimmed(ab[1]) /\ Trimmed(ab[2])
             /\ ~EndsWith(ab[1], <<" ", ">">>))
            => <<spl.src_ip, spl.dst_ip>> = ab

\* ">" > "11" has been split into ">" and "11"
C9_Witness ==
    /\ SplitDone
    /\ spl.routing = Arrowed(<<">">>, <<"1", "1">>)
    /\ spl.src_ip = <<">">> /\ spl.dst_ip = <<"1", "1">>

\* the number of " > " delimiters str.split finds
Delimiters(s) == Len(split(s, <<" ", ">", " ">>)) - 1

\* C10 (as claimed): split_routing returns either two non-empty strings or
\* ("", ""); an empty field, or one that does not hold exactly one " > "
\* delimiter, yields ("", "").
C10_AsClaimed ==
    SplitDone =>
        /\ \/ spl.src_ip # <<>> /\ spl.dst_ip # <<>>
           \/ spl.src_ip = <<>> /\ spl.dst_ip = <<>>
        /\ (spl.routing = <<>> \/ Delimiters(spl.routing) # 1)
               => (spl.src_ip = <<>> /\ spl.dst_ip = <<>>)

(***************************************************************************)
(* The one-to-one stages: reduce_columns.py, extract_routing.py,           *)
(* split_ip.py, classify_ip.py, extract_protocol.py,                       *)
(* extract_severity_level.py, extract_severity.py                          *)
(***************************************************************************)
Letters ==
    {"a", "b", "c", "d", "e", "f", "g", "h", "i", "j", "k", "l", "m", "n", "o", "p", "q",
     "r", "s", "t", "u", "v", "w", "x", "y", "z", "A", "B", "C", "D", "E", "F", "G", "H",
     "I", "J", "K", "L", "M", "N", "O", "P", "Q", "R", "S", "T", "U", "V", "W", "X", "Y", "Z"}

\* the classes \d and \w
DigitClass == {Digits[d] : d \in DOMAIN Digits}
WordClass  == Letters \cup DigitClass \cup {"_"}

RECURSIVE RunLength(_, _, _)
\* how many characters of the class follow each other in s from position i on
RunLength(s, i, class) ==
    IF i <= Len(s) /\ s[i] \in class THEN 1 + RunLength(s, i + 1, class) ELSE 0

\* \d+ followed by the character term: an octet of any number of digits
OctetThenAnyLength(s, i, term) ==
    LET n == RunLength(s, i, DigitClass) IN
    IF i > 0 /\ n >= 1 /\ i + n <= Len(s) /\ s[i + n] = term THEN i + n + 1 ELSE 0

\* \d{1,3} followed by the character term, at position i: the position after
\* term, 0 when there is no match
OctetThen(s, i, term) ==
    LET n == RunLength(s, i, DigitClass) IN
    IF i > 0 /\ n \in 1..3 /\ i + n <= Len(s) /\ s[i + n] = term THEN i + n + 1 ELSE 0

\* \d{1,3}\.\d{1,3}\.\d{1,3}\.\d{1,3}/ at position i: the position after "/"
QuadSlash(s, i) == OctetThen(s, OctetThen(s, OctetThen(s, OctetThen(s, i, "."), "."), "."), "/")

\* \d+ at position i: the position after the digits, 0 when there is none
Port(s, i) ==
    LET n == RunLength(s, i, DigitClass) IN IF i > 0 /\ n >= 1 THEN i + n ELSE 0

\* ROUTING_PATTERN at position i: the positions after the first "/", after
\* " > " and after the second "/"; a 0 among them when there is no match
RoutingAt(s, i) ==
    LET q1 == QuadSlash(s, i)
        p1 == Port(s, q1)
        a  == IF p1 > 0 /\ OccursAt(s, <<" ", ">", " ">>, p1) THEN p1 + 3 ELSE 0
        q2 == QuadSlash(s, a)
    IN  <<q1, a, q2, Port(s, q2)>>

RoutingMatches(s, i) == \A k \in 1..4 : RoutingAt(s, i)[k] > 0

\* ROUTING_PATTERN.search(message): <<f"{src_ip} > {dst_ip}">>, or <<>> for the
\* None returned without a match
extract_routing_from_message(message) ==
    IF \E i \in 1..Len(message) : RoutingMatches(message, i)
    THEN LET i == CHOOSE j \in 1..Len(message) :
                     RoutingMatches(message, j) /\ \A h \in 1..(j - 1) : ~RoutingMatches(message, h)
             at == RoutingAt(message, i)
         IN  <<SubSeq(message, i, at[1] - 2) \o <<" ", ">", " ">> \o SubSeq(message, at[2], at[3] - 2)>>
    ELSE <<>>

\* does key, followed by a character of the class, occur in s at position i?
KeyAt(s, key, class, i) == OccursAt(s, key, i) /\ RunLength(s, i + Len(key), class) >= 1

\* Series.str.extract(key(class+)) on one value, then fillna(""): the first
\* group of the leftmost match, "" without a match
str_extract(s, key, class) ==
    IF \E i \in 1..Len(s) : KeyAt(s, key, class, i)
    THEN LET i == CHOOSE j \in 1..Len(s) :
                     KeyAt(s, key, class, j) /\ \A h \in 1..(j - 1) : ~KeyAt(s, key, class, h)
             from == i + Len(key)
         IN  SubSeq(s, from, from + RunLength(s, from, class) - 1)
    ELSE <<>>

MaxStageRows == 2   \* data lines of the file given to a stage

\* the column lists of the module docstrings
ReducedSchema == <<(<<"Timestamp">>), (<<"Hostname">>), (<<"AppName">>), (<<"Message">>)>>
RoutedSchema == SubSeq(ReducedSchema, 1, 3) \o <<(<<"routing">>), (<<"Message">>)>>
SplittedSchema == SubSeq(RoutedSchema, 1, 4) \o <<(<<"srcIP">>), (<<"dstIP">>), (<<"Message">>)>>
ClassifiedSchema ==
    SubSeq(SplittedSchema, 1, 5) \o
    <<(<<"srcIP_type">>), (<<"dstIP">>), (<<"dstIP_type">>), (<<"Message">>)>>
ProtocolSchema == SubSeq(ClassifiedSchema, 1, 8) \o <<(<<"protocol">>), (<<"Message">>)>>
SeverityLevelSchema == SubSeq(ProtocolSchema, 1, 9) \o <<(<<"SeverityLevel">>), (<<"Message">>)>>

\* the stages that read their file with csv.reader, and those that read it with pandas
CsvStages == {"reduce_columns", "extract_routing", "split_ip", "classify_ip"}
PandasStages == {"extract_protocol", "extract_severity_level", "extract_severity"}
StageNames == CsvStages \cup PandasStages

\* the columns of the file a stage reads
SchemaOf(stage) ==
    CASE stage = "reduce_columns" -> InputSchema
      [] stage = "extract_routing" -> ReducedSchema
      [] stage = "split_ip" -> RoutedSchema
      [] stage = "classify_ip" -> SplittedSchema
      [] stage = "extract_protocol" -> ClassifiedSchema
      [] stage = "extract_severity_level" -> ProtocolSchema
      [] stage = "extract_severity" -> SeverityLevelSchema

\* a log line of an attack, and one that carries none of the patterns
AttackMessage == <<"R", "T", ":", " ", "1", ".", "1", ".", "1", ".", "1", "/", "5", " ", ">", " ", "1", "0", ".", "0", ".", "0", ".", "1", "/", "8", "0", " ", "p", "r", "o", "t", "o", "c", "o", "l", "=", "t", "c", "p", " ", "S", "e", "v", "e", "r", "i", "t", "y", "L", "e", "v", "e", "l", "=", "3", " ", "S", "e", "v", "e", "r", "i", "t", "y", "=", "I", "N", "F", "O">>
PlainMessage == <<"l", "i", "n", "k", " ", "u", "p">>
RowKinds == {"attack", "plain"}

\* a Message that is a number; csv.reader takes it as any other text, so it is
\* given to the pandas stages only
NumberMessage == <<"4", "0", "4">>
KindsOf(stage) == IF stage \in PandasStages THEN RowKinds \cup {"number"} ELSE RowKinds

\* the field of data line k under a column
Cell(column, k, kind) ==
    IF column = <<"Timestamp">> THEN <<"t", Digits[k + 1]>>
    ELSE IF column = <<"Hostname">> THEN <<"f", "w">>
    ELSE IF column = <<"AppName">> THEN <<"R", "T", "_", "I", "D", "S">>
    ELSE IF column = <<"LogType">> THEN <<"-">>
    ELSE IF column = <<"Message">>
         THEN (IF kind = "attack" THEN AttackMessage
               ELSE IF kind = "plain" THEN PlainMessage ELSE NumberMessage)
    ELSE IF kind # "attack" THEN <<>>
    ELSE IF column = <<"routing">> THEN <<"1", ".", "1", ".", "1", ".", "1", " ", ">", " ", "1", "0", ".", "0", ".", "0", ".", "1">>
    ELSE IF column = <<"srcIP">> THEN <<"1", ".", "1", ".", "1", ".", "1">>
    ELSE IF column = <<"dstIP">> THEN <<"1", "0", ".", "0", ".", "0", ".", "1">>
    ELSE IF column = <<"srcIP_type">> THEN GLOBAL
    ELSE IF column = <<"dstIP_type">> THEN PRIVATE
    ELSE IF column = <<"protocol">> THEN <<"t", "c", "p">>
    ELSE IF column = <<"SeverityLevel">> THEN <<"3">>
    ELSE <<"I", "N", "F", "O">>

\* data line k with the given number of fields: the leading fields of the
\* full line, or the full line and one field more
StageRow(schema, k, kind, width) ==
    [j \in 1..width |-> IF j <= Len(schema) THEN Cell(schema[j], k, kind) ELSE <<"+">>]

\* the numbers of fields of the data lines: a blank line, a line one field
\* short, a full line, a line one field long for csv.reader; blank and full
\* lines for pandas
WidthsOf(stage) ==
    LET n == Len(SchemaOf(stage)) IN IF stage \in CsvStages THEN {0, n - 1, n, n + 1} ELSE {0, n}

\* the header lines: the schema, and the schema with its last column left out
\* (csv.reader) or renamed (pandas)
HeadersOf(stage) ==
    LET schema == SchemaOf(stage)
        n == Len(schema)
    IN  {schema,
         IF stage \in CsvStages THEN SubSeq(schema, 1, n - 1)
         ELSE SubSeq(schema, 1, n - 1) \o <<(<<"message">>)>>}

\* the files given to a stage: an empty file, or a header line and data lines
StageFiles(stage) ==
    {<<>>} \cup
    {<<h>> \o [k \in 1..Len(c) |-> StageRow(SchemaOf(stage), k, c[k][1], c[k][2])] :
        h \in HeadersOf(stage), c \in SeqsUpTo(KindsOf(stage) \X WidthsOf(stage), MaxStageRows)}

RECURSIVE PickInColumnOrder(_, _)
\* the fields at the positions of keep_columns, in the order of the row
PickInColumnOrder(row, keep_columns) ==
    IF row = <<>> THEN <<>>
    ELSE PickInColumnOrder(SubSeq(row, 1, Len(row) - 1), keep_columns)
         \o (IF Len(row) - 1 \in Range(keep_columns) THEN <<row[Len(row)]>> ELSE <<>>)

RECURSIVE Pick(_, _)
\* [row[i] for i in keep_columns if i < len(row)]
Pick(row, keep_columns) ==
    IF keep_columns = <<>> THEN <<>>
    ELSE (IF Head(keep_columns) < Len(row) THEN <<row[Head(keep_columns) + 1]>> ELSE <<>>)
         \o Pick(row, Tail(keep_columns))

KeepColumns == <<0, 1, 2, 6>>

\* what a stage leaves behind: the exception it raised, the lines it wrote
Wrote(lines) == [raised |-> None, output |-> lines]
Raised(error) == [raised |-> error, output |-> <<>>]

\* the projection of the data lines only, the first line taken as a header
\* and left out
reduce_csv_columns_data_only(lines, keep_columns) ==
    Wrote([i \in 1..(Len(lines) - 1) |-> Pick(lines[i + 1], keep_columns)])

reduce_csv_columns(lines, keep_columns) ==
    Wrote([i \in DOMAIN lines |-> Pick(lines[i], keep_columns)])

\* "header = next(reader, None)" and "if header:"
HasHeader(lines) == lines # <<>> /\ lines[1] # <<>>
DataLines(lines) == IF lines = <<>> THEN <<>> ELSE Tail(lines)

\* new_row of extract_routing_from_csv
RoutedRow(row) ==
    LET found == extract_routing_from_message(row[4])
        routing == IF found = <<>> THEN <<>> ELSE found[1]    \* routing = ""
    IN  SubSeq(row, 1, 3) \o <<routing>> \o <<row[4]>>

RECURSIVE RoutedRows(_)
RoutedRows(rows) ==
    IF rows = <<>> THEN <<>>
    ELSE (IF Len(Head(rows)) >= 4 THEN <<RoutedRow(Head(rows))>> ELSE <<>>)
         \o RoutedRows(Tail(rows))

extract_routing_from_csv(lines) ==
    IF HasHeader(lines) /\ Len(lines[1]) < 4 THEN Raised("ExtractRoutingError")  \* header[3]
    ELSE Wrote((IF HasHeader(lines)
                THEN <<SubSeq(lines[1], 1, 3) \o <<(<<"routing">>)>> \o <<lines[1][4]>>>>
                ELSE <<>>)
               \o RoutedRows(DataLines(lines)))

\* new_row of split_ip_from_csv
SplittedRow(row) == SubSeq(row, 1, 4) \o split_routing(row[4]) \o <<row[5]>>

RECURSIVE SplittedRows(_)
SplittedRows(rows) ==
    IF rows = <<>> THEN <<>>
    ELSE (IF Len(Head(rows)) >= 5 THEN <<SplittedRow(Head(rows))>> ELSE <<>>)
         \o SplittedRows(Tail(rows))

split_ip_from_csv(lines) ==
    IF HasHeader(lines) /\ Len(lines[1]) < 5 THEN Raised("SplitIPError")          \* header[4]
    ELSE Wrote((IF HasHeader(lines)
                THEN <<SubSeq(lines[1], 1, 4) \o <<(<<"srcIP">>), (<<"dstIP">>)>>
                       \o <<lines[1][5]>>>>
                ELSE <<>>)
               \o SplittedRows(DataLines(lines)))

\* the layout of the module docstring: both types after dstIP
ClassifiedRowTypesLast(row) ==
    SubSeq(row, 1, 6) \o <<classify_ip_address(row[5])>>
    \o <<classify_ip_address(row[6])>> \o <<row[7]>>

\* new_row of classify_ip_from_csv
ClassifiedRow(row) ==
    SubSeq(row, 1, 5) \o <<classify_ip_address(row[5])>> \o <<row[6]>>
    \o <<classify_ip_address(row[6])>> \o <<row[7]>>

RECURSIVE ClassifiedRows(_)
ClassifiedRows(rows) ==
    IF rows = <<>> THEN <<>>
    ELSE (IF Len(Head(rows)) >= 7 THEN <<ClassifiedRow(Head(rows))>> ELSE <<>>)
         \o ClassifiedRows(Tail(rows))

classify_ip_from_csv(lines) ==
    IF HasHeader(lines) /\ Len(lines[1]) < 7 THEN Raised("ClassifyIPError")       \* header[5], header[6]
    ELSE Wrote((IF HasHeader(lines)
                THEN <<SubSeq(lines[1], 1, 5) \o <<(<<"srcIP_type">>)>> \o <<lines[1][6]>>
                       \o <<(<<"dstIP_type">>)>> \o <<lines[1][7]>>>>
                ELSE <<>>)
               \o ClassifiedRows(DataLines(lines)))

RECURSIVE SkipBlankLines(_)
\* pd.read_csv leaves blank lines out (skip_blank_lines)
SkipBlankLines(rows) ==
    IF rows = <<>> THEN <<>>
    ELSE (IF Head(rows) = <<>> THEN <<>> ELSE <<Head(rows)>>) \o SkipBlankLines(Tail(rows))

\* a line with one field more, put before position m
InsertBefore(row, m, field) == SubSeq(row, 1, m - 1) \o <<field>> \o SubSeq(row, m, Len(row))

\* pd.read_csv turns a column into numbers when every value of it is one
\* (digits only here); df[column].str then raises AttributeError
InfersNumbers(rows, m) ==
    rows # <<>> /\ \A k \in DOMAIN rows : rows[k][m] # <<>> /\ \A j \in DOMAIN rows[k][m] : IsDigit(rows[k][m][j])

\* the body of the three pandas stages for one file: read_csv, the Message
\* check, str.extract and fillna(""), the new column put before Message, to_csv
extract_column(lines, column, key, class, error) ==
    IF lines = <<>> THEN Raised(error)                                    \* EmptyDataError
    ELSE IF ColumnIndex(lines[1], <<"Message">>) = 0 THEN Raised(error)
    ELSE LET m == ColumnIndex(lines[1], <<"Message">>)
             rows == SkipBlankLines(Tail(lines))
         IN  IF InfersNumbers(rows, m) THEN Raised(error)                 \* .str on numbers
             ELSE
             Wrote(<<InsertBefore(lines[1], m, column)>> \o
                   [k \in DOMAIN rows |->
                       InsertBefore(rows[k], m, str_extract(rows[k][m], key, class))])

extract_protocol(lines) ==
    extract_column(lines, <<"protocol">>, <<"p", "r", "o", "t", "o", "c", "o", "l", "=">>, WordClass, "ExtractProtocolError")

extract_severity_level(lines) ==
    extract_column(lines, <<"SeverityLevel">>, <<"S", "e", "v", "e", "r", "i", "t", "y", "L", "e", "v", "e", "l", "=">>, DigitClass,
                   "ExtractSeverityLevelError")

extract_severity(lines) ==
    extract_column(lines, <<"Severity">>, <<"S", "e", "v", "e", "r", "i", "t", "y", "=">>, WordClass, "ExtractSeverityError")

StageInit ==
    /\ \E stage \in StageNames :
       \E lines \in StageFiles(stage) :
          stg = [pc |-> "start", stage |-> stage, input |-> lines,
                 output |-> <<>>, raised |-> None]
    /\ stg_only

\* the stage has run on its file
Ran(result) == stg' = [stg EXCEPT !.pc = "done", !.output = result.output, !.raised = result.raised]

run_reduce_columns ==
    /\ stg.pc = "start" /\ stg.stage = "reduce_columns"
    /\ Ran(reduce_csv_columns(stg.input, KeepColumns))
    /\ UNCHANGED stg_frame

run_extract_routing ==
    /\ stg.pc = "start" /\ stg.stage = "extract_routing"
    /\ Ran(extract_routing_from_csv(stg.input))
    /\ UNCHANGED stg_frame

run_split_ip ==
    /\ stg.pc = "start" /\ stg.stage = "split_ip"
    /\ Ran(split_ip_from_csv(stg.input))
    /\ UNCHANGED stg_frame

run_classify_ip ==
    /\ stg.pc = "start" /\ stg.stage = "classify_ip"
    /\ Ran(classify_ip_from_csv(stg.input))
    /\ UNCHANGED stg_frame

run_extract_protocol ==
    /\ stg.pc = "start" /\ stg.stage = "extract_protocol"
    /\ Ran(extract_protocol(stg.input))
    /\ UNCHANGED stg_frame

run_extract_severity_level ==
    /\ stg.pc = "start" /\ stg.stage = "extract_severity_level"
    /\ Ran(extract_severity_level(stg.input))
    /\ UNCHANGED stg_frame

run_extract_severity ==
    /\ stg.pc = "start" /\ stg.stage = "extract_severity"
    /\ Ran(extract_severity(stg.input))
    /\ UNCHANGED stg_frame

StagesNext ==
    \/ run_reduce_columns
    \/ run_extract_routing
    \/ run_split_ip
    \/ run_classify_ip
    \/ run_extract_protocol
    \/ run_extract_severity_level
    \/ run_extract_severity

SpecStages == StageInit /\ [][StagesNext]_vars

StageWrote == stg.pc = "done" /\ stg.raised = None

RECURSIVE TableRows(_)
\* the rows of a table: the lines of the file that hold something
TableRows(lines) ==
    IF lines = <<>> THEN <<>>
    ELSE (IF Head(lines) = <<>> THEN <<>> ELSE <<Head(lines)>>) \o TableRows(Tail(lines))

\* C6 (as claimed): whenever a one-to-one stage has written its output, the
\* output table has exactly as many rows as the input table, and the rows
\* are those of the input in the same order (told apart by their first field).
C6_AsClaimed ==
    StageWrote =>
        LET given == TableRows(stg.input)
            out == TableRows(stg.output)
        IN  /\ Len(out) = Len(given)
            /\ \A k \in DOMAIN out : out[k][1] = given[k][1]

(***************************************************************************)
(* extract_routing.py: the routing field of one data row                   *)
(***************************************************************************)
\* the pieces a Message is put together from: text before the first address,
\* addresses, ports, what stands between the two address/port pairs, text after
MessagePrefixes == {<<>>, <<"R", "T", ":", " ">>, <<"1">>, <<"9", ".", "9", ".", "9", ".", "9", "/", "1", " ", ">">>}
MessageAddrs ==
    {<<"1", ".", "2", ".", "3", ".", "4">>, <<"1", "0", ".", "0", ".", "0", ".", "2", "5", "5">>,
     <<"1", "2", "3", "4", ".", "1", ".", "1", ".", "1">>, <<"1", ".", "2", ".", "3">>,
     <<"1", ".", "2", ".", "3", ".", "4", ".", "5">>}
MessagePorts == {<<"8", "0">>, <<>>, <<"x">>}
MessageArrows == {<<" ", ">", " ">>, <<">">>, <<" ", " ", ">", " ">>}
MessageSuffixes == {<<>>, <<"x">>, <<" ", "5", ".", "6", ".", "7", ".", "8", "/", "1", " ", ">", " ", "8", ".", "7", ".", "6", ".", "5", "/", "2", "2">>}

MessageTexts ==
    {pre \o a1 \o <<"/">> \o p1 \o arrow \o a2 \o <<"/">> \o p2 \o post :
        pre \in MessagePrefixes, a1 \in MessageAddrs, p1 \in MessagePorts,
        arrow \in MessageArrows, a2 \in MessageAddrs, p2 \in MessagePorts,
        post \in MessageSuffixes}

RoutingInit ==
    /\ \E message \in MessageTexts :
          rte = [pc |-> "start", message |-> message, routing |-> <<>>, raised |-> None]
    /\ rte_only

\* the body of the data-row loop: routing = extract_routing_from_message(message),
\* "" when that is None
extract_row ==
    /\ rte.pc = "start"
    /\ LET found == extract_routing_from_message(rte.message) IN
       rte' = [rte EXCEPT !.pc = "done",
                          !.routing = IF found = <<>> THEN <<>> ELSE found[1]]
    /\ UNCHANGED rte_frame

RoutingNext == extract_row

SpecRouting == RoutingInit /\ [][RoutingNext]_vars

RoutingDone == rte.pc = "done"

\* the first position from i on where s holds the character c, 0 when there is none
NextIndex(s, i, c) ==
    IF \E j \in i..Len(s) : s[j] = c
    THEN CHOOSE j \in i..Len(s) : s[j] = c /\ \A h \in i..(j - 1) : s[h] # c
    ELSE 0

AllDigits(t) == t # <<>> /\ \A j \in DOMAIN t : IsDigit(t[j])

\* ADDR: four dot-separated groups of one to three digits
IsAddr(t) ==
    LET parts == split(t, <<".">>) IN
    Len(parts) = 4 /\ \A j \in 1..4 : AllDigits(parts[j]) /\ Len(parts[j]) <= 3

\* ADDR/PORT > ADDR/PORT read from position i of s: where the first "/", the
\* blank after the first port and the second "/" stand
PairAt(s, i) ==
    LET slash1 == NextIndex(s, i, "/")
        blank == IF slash1 = 0 THEN 0 ELSE NextIndex(s, slash1, " ")
        slash2 == IF blank = 0 THEN 0 ELSE NextIndex(s, blank + 3, "/")
    IN  <<slash1, blank, slash2>>

Addr1At(s, i) == SubSeq(s, i, PairAt(s, i)[1] - 1)
Addr2At(s, i) == SubSeq(s, PairAt(s, i)[2] + 3, PairAt(s, i)[3] - 1)

\* s holds a match of ADDR/PORT > ADDR/PORT that starts at position i
PatternAt(s, i) ==
    LET at == PairAt(s, i) IN
    /\ at[1] > 0 /\ at[2] > 0 /\ at[3] > 0
    /\ IsAddr(Addr1At(s, i))
    /\ AllDigits(SubSeq(s, at[1] + 1, at[2] - 1))
    /\ SubSeq(s, at[2], at[2] + 2) = <<" ", ">", " ">>
    /\ IsAddr(Addr2At(s, i))
    /\ at[3] < Len(s) /\ IsDigit(s[at[3] + 1])

PatternStarts(s) == {i \in 1..Len(s) : PatternAt(s, i)}

FirstStart(s) == CHOOSE i \in PatternStarts(s) : \A j \in PatternStarts(s) : i <= j

StageDone == stg.pc = "done"

\* the column a pandas stage adds, and the key=value pattern it reads
AddedColumn(stage) ==
    CASE stage = "extract_protocol" -> <<"protocol">>
      [] stage = "extract_severity_level" -> <<"SeverityLevel">>
      [] stage = "extract_severity" -> <<"Severity">>

KeyOf(stage) ==
    CASE stage = "extract_protocol" -> <<"p", "r", "o", "t", "o", "c", "o", "l", "=">>
      [] stage = "extract_severity_level" -> <<"S", "e", "v", "e", "r", "i", "t", "y", "L", "e", "v", "e", "l", "=">>
      [] stage = "extract_severity" -> <<"S", "e", "v", "e", "r", "i", "t", "y", "=">>

ValueClassOf(stage) == IF stage = "extract_severity_level" THEN DigitClass ELSE WordClass

SchemaErrorOf(stage) ==
    CASE stage = "extract_protocol" -> "ExtractProtocolError"
      [] stage = "extract_severity_level" -> "ExtractSeverityLevelError"
      [] stage = "extract_severity" -> "ExtractSeverityError"

\* the positions of s where the key stands with a value behind it
ValueStarts(s, key, class) ==
    {i + Len(key) : i \in {j \in 1..Len(s) : OccursAt(s, key, j)
                                               /\ j + Len(key) <= Len(s)
                                               /\ s[j + Len(key)] \in class}}

\* the value of the first key=value of s, "" when there is none
FirstValue(s, key, class) ==
    LET starts == ValueStarts(s, key, class) IN
    IF starts = {} THEN <<>>
    ELSE LET from == CHOOSE i \in starts : \A j \in starts : i <= j
             ends == {e \in from..Len(s) : \A j \in from..e : s[j] \in class}
         IN  SubSeq(s, from, CHOOSE e \in ends : \A f \in ends : f <= e)

\* C12 (as claimed): a pandas stage run on a table with a Message column
\* writes the table with one column more, immediately before Message, holding
\* on each row the value of the first key=value of the row's Message or "";
\* run on a table without a Message column it fails with its schema error.
C12_AsClaimed ==
    (StageDone /\ stg.stage \in PandasStages /\ stg.input # <<>>) =>
        LET header == stg.input[1]
            m == ColumnIndex(header, <<"Message">>)
            rows == TableRows(Tail(stg.input))
        IN  IF m = 0 THEN stg.raised = SchemaErrorOf(stg.stage)
            ELSE /\ stg.raised = None
                 /\ Len(stg.output) = 1 + Len(rows)
                 /\ stg.output[1] = InsertBefore(header, m, AddedColumn(stg.stage))
                 /\ \A k \in DOMAIN rows :
                       stg.output[k + 1] =
                           InsertBefore(rows[k], m,
                                        FirstValue(rows[k][m], KeyOf(stg.stage),
                                                   ValueClassOf(stg.stage)))

(***************************************************************************)
(* reduce_columns.py: reduce_csv_columns, applied once and again           *)
(***************************************************************************)
MaxRedWidth == 3    \* fields of a line; positions range over 0..MaxRedWidth
MaxKeep == 3        \* length of keep_columns

\* field j of line k
RedField(k, j) == <<"f", Digits[k + 1], Digits[j + 1]>>

RedLine(k, width) == [j \in 1..width |-> RedField(k, j)]

\* files of up to two lines (a header, a data line), each of its own width
RedFiles ==
    {[k \in 1..Len(ws) |-> RedLine(k, ws[k])] : ws \in SeqsUpTo(1..MaxRedWidth, 2)}

KeepLists == SeqsUpTo(0..MaxRedWidth, MaxKeep)

ReduceInit ==
    /\ \E lines \in RedFiles, keep_columns \in KeepLists :
          red = [pc |-> "start", lines |-> lines, keep_columns |-> keep_columns,
                 once |-> Wrote(<<>>), twice |-> Wrote(<<>>)]
    /\ red_only

\* reduce_csv_columns(input_path, output_path, keep_columns)
reduce_once ==
    /\ red.pc = "start"
    /\ red' = [red EXCEPT !.pc = "once",
                          !.once = reduce_csv_columns(red.lines, red.keep_columns)]
    /\ UNCHANGED red_frame

\* the same call on the file the first call wrote
reduce_again ==
    /\ red.pc = "once" /\ red.once.raised = None
    /\ red' = [red EXCEPT !.pc = "twice",
                          !.twice = reduce_csv_columns(red.once.output, red.keep_columns)]
    /\ UNCHANGED red_frame

ReduceNext == reduce_once \/ reduce_again

SpecReduce == ReduceInit /\ [][ReduceNext]_vars

ReducedOnce == red.pc \in {"once", "twice"}
ReducedTwice == red.pc = "twice"

\* position i is a 0-based position of the row
InRange(row, i) == 0 <= i /\ i < Len(row)

AllInRange(lines, keep_columns) ==
    \A k \in DOMAIN lines : \A j \in DOMAIN keep_columns : InRange(lines[k], keep_columns[j])

\* C13: with a list of positions that are in range for every row of the
\* input (header included), each output row consists of exactly the fields
\* at those positions, in the order of the list.
C13_Projection ==
    (ReducedOnce /\ AllInRange(red.lines, red.keep_columns)) =>
        /\ red.once.raised = None
        /\ Len(red.once.output) = Len(red.lines)
        /\ \A k \in DOMAIN red.lines :
              /\ Len(red.once.output[k]) = Len(red.keep_columns)
              /\ \A j \in DOMAIN red.keep_columns :
                    red.once.output[k][j] = red.lines[k][red.keep_columns[j] + 1]

\* a header and a data line of three fields have been projected on the
\* positions 2, 0, 2
C13_Witness ==
    /\ ReducedOnce
    /\ Len(red.lines) = 2 /\ Len(red.lines[1]) = 3 /\ Len(red.lines[2]) = 3
    /\ red.keep_columns = <<2, 0, 2>>
    /\ red.once.output[2] = <<RedField(2, 3), RedField(2, 1), RedField(2, 3)>>

\* C14 (as claimed): the projection fails with a column-index error whenever
\* a requested position is out of range for the width of the input file; it
\* never writes rows that are missing a requested column.
C14_AsClaimed ==
    (ReducedOnce /\ ~AllInRange(red.lines, red.keep_columns)) =>
        /\ red.once.raised # None
        /\ red.once.output = <<>>

\* C15 (as claimed): projecting the result of a projection again with the
\* same column list yields the same table as projecting once.
C15_AsClaimed ==
    ReducedTwice => (red.twice.raised = None /\ red.twice.output = red.once.output)

\* the list 0, 1, ..., k-1
IsInitialSegment(keep_columns) == \A j \in DOMAIN keep_columns : keep_columns[j] = j - 1

\* C15: for a column list 0, 1, ..., k-1 whose positions are in range for
\* every row of the table, projecting the result of the projection again
\* with the same list yields the same table as projecting once.
C15_Idempotence ==
    (/\ ReducedTwice
     /\ IsInitialSegment(red.keep_columns)
     /\ AllInRange(red.lines, red.keep_columns))
    => (red.twice.raised = None /\ red.twice.output = red.once.output)

\* a header and a data line of three fields have been projected twice on
\* the positions 0, 1
C15_Witness ==
    /\ ReducedTwice
    /\ Len(red.lines) = 2 /\ Len(red.lines[1]) = 3 /\ Len(red.lines[2]) = 3
    /\ red.keep_columns = <<0, 1>>
    /\ red.twice.output = <<(<<RedField(1, 1), RedField(1, 2)>>), (<<RedField(2, 1), RedField(2, 2)>>)>>

\* the input of the classification stage follows its schema: the header is
\* the one of split_ip's output and every data line has its seven fields
FollowsSplittedSchema(lines) ==
    /\ lines # <<>>
    /\ lines[1] = SplittedSchema
    /\ \A k \in 2..Len(lines) : Len(lines[k]) = Len(SplittedSchema)

FilterCriticalInit ==
    /\ \E n \in 0..MaxFcmFiles, severity_filter \in SeverityOptions :
       \E shape \in [1..n -> FcmShapes] :
          fcr = [pc |-> "start", input_files |-> [i \in 1..n |-> i],
                 fs |-> [p \in 1..n |-> FcmFile(p, shape[p])],
                 severity_filter |-> severity_filter, i |-> 0,
                 output_files |-> <<>>, out |-> <<>>,
                 total_rows |-> 0, critical_rows |-> 0,
                 result |-> <<>>, raised |-> None]
    /\ fcr_only

\* "if not input_files: return []", else the loop starts
filter_critical_start ==
    /\ fcr.pc = "start"
    /\ IF fcr.input_files = <<>>
       THEN fcr' = [fcr EXCEPT !.pc = "done", !.result = <<>>]
       ELSE fcr' = [fcr EXCEPT !.pc = "loop", !.i = 1]
    /\ UNCHANGED fcr_frame

\* a variant that writes an output file for every input file
HasCriticalRowsAlways(critical_df) == TRUE

\* "if len(critical_df) > 0:"
HasCriticalRows(critical_df) == Len(critical_df) > 0

\* one iteration of "for input_path in input_files": every exception ends
\* the call with FilterCriticalError
filter_critical_file ==
    /\ fcr.pc = "loop"
    /\ fcr.i <= Len(fcr.input_files)
    /\ LET input_path == fcr.input_files[fcr.i]
           df == read_csv(fcr.fs[input_path])
           c  == ColumnIndex(df.columns, <<"Severity">>)
       IN  IF df.raised # None \/ c = 0
           THEN fcr' = [fcr EXCEPT !.pc = "done", !.raised = "FilterCriticalError"]
           ELSE LET critical_df == SelectBySeverity(df.rows, c, fcr.severity_filter) IN
                IF HasCriticalRows(critical_df)
                THEN fcr' = [fcr EXCEPT
                               !.total_rows = @ + Len(df.rows),
                               !.out = (input_path :> (<<df.columns>> \o critical_df)) @@ @,
                               !.output_files = Append(@, input_path),
                               !.critical_rows = @ + Len(critical_df),
                               !.i = @ + 1]
                ELSE fcr' = [fcr EXCEPT !.total_rows = @ + Len(df.rows), !.i = @ + 1]
    /\ UNCHANGED fcr_frame

\* "return output_files"
filter_critical_return ==
    /\ fcr.pc = "loop"
    /\ fcr.i > Len(fcr.input_files)
    /\ fcr' = [fcr EXCEPT !.pc = "done", !.result = fcr.output_files]
    /\ UNCHANGED fcr_frame

FilterCriticalNext == filter_critical_start \/ filter_critical_file \/ filter_critical_return

SpecFilterCritical == FilterCriticalInit /\ [][FilterCriticalNext]_vars

FilterCriticalReturned == fcr.pc = "done" /\ fcr.raised = None

\* indices of the data rows of a table whose Severity equals the target
TargetIndices(lines, target) ==
    {k \in 2..Len(lines) : lines[k][ColumnIndex(lines[1], <<"Severity">>)] = target}

\* C19: when filter_critical returns, every input file with at least one row
\* whose Severity equals the target has exactly one output file of the same
\* base name, holding the header and exactly those rows in their original
\* order; an input file with no such row has no output file; the returned
\* list holds exactly the files written, each once.
C19_FilterCritical ==
    FilterCriticalReturned =>
        /\ \A p \in Range(fcr.input_files) :
              LET lines == fcr.fs[p].lines
                  I == TargetIndices(lines, fcr.severity_filter)
              IN  IF I # {}
                  THEN /\ p \in DOMAIN fcr.out
                       /\ fcr.out[p][1] = lines[1]
                       /\ IsSelection(Tail(fcr.out[p]), lines, I)
                  ELSE p \notin DOMAIN fcr.out
        /\ Range(fcr.result) = DOMAIN fcr.out
        /\ Len(fcr.result) = Cardinality(DOMAIN fcr.out)

\* two files have been filtered for CRITICAL: the first holds a CRITICAL row
\* after a row of another severity and is written, the second holds none
C19_Witness ==
    /\ FilterCriticalReturned
    /\ fcr.severity_filter = CRITICAL
    /\ Len(fcr.input_files) = 2
    /\ Len(fcr.fs[1].lines) = 3
    /\ fcr.fs[1].lines[2][2] # CRITICAL /\ fcr.fs[1].lines[3][2] = CRITICAL
    /\ fcr.result = <<1>>
    /\ fcr.out[1] = <<FcmSchema, fcr.fs[1].lines[3]>>

(***************************************************************************)
(* extract.py: extract_zip, extract_all_zips; run.py: Phase 1 of main      *)
(***************************************************************************)
MaxZips == 2       \* archives in source_logs
MaxMembers == 2    \* members of one archive

\* a member of an archive: a readable CSV, a CSV of zero bytes, or a file
\* whose name does not end in ".csv"
MemberKinds == {"csv", "empty_csv", "txt"}

\* an archive: bytes that are no ZIP file (bad_zip), or a list of members
Archives ==
    {[bad_zip |-> TRUE, members |-> <<>>]} \cup
    {[bad_zip |-> FALSE, members |-> ms] : ms \in SeqsUpTo(MemberKinds, MaxMembers)}

\* the entry points of Phase 1: the batch function of extract.py, and the
\* loop of run.main
Modes == {"extract_all_zips", "main"}

\* positions of the members named "*.csv", in namelist order
RECURSIVE CsvMembers(_, _)
CsvMembers(members, k) ==
    IF k > Len(members) THEN <<>>
    ELSE (IF members[k] = "txt" THEN <<>> ELSE <<k>>) \o CsvMembers(members, k + 1)

\* the members written before pd.read_csv raises on a CSV of zero bytes
RECURSIVE WrittenBeforeError(_, _)
WrittenBeforeError(members, ks) ==
    IF ks = <<>> \/ members[Head(ks)] = "empty_csv" THEN <<>>
    ELSE <<Head(ks)>> \o WrittenBeforeError(members, Tail(ks))

\* extract_zip(zip_path, output_dir) on the archive named z: written are the
\* files left in output_dir, files the returned list
extract_zip(z, archive) ==
    LET csv_files == CsvMembers(archive.members, 1)
        written == WrittenBeforeError(archive.members, csv_files)
        Name(k) == <<z, k>>
    IN  IF archive.bad_zip \/ archive.members = <<>> \/ csv_files = <<>>
        THEN [raised |-> "ExtractError", written |-> {}, files |-> <<>>]
        ELSE IF Len(written) < Len(csv_files)
        THEN [raised |-> "ExtractError",
              written |-> {Name(written[j]) : j \in DOMAIN written}, files |-> <<>>]
        ELSE [raised |-> None,
              written |-> {Name(written[j]) : j \in DOMAIN written},
              files |-> [j \in DOMAIN csv_files |-> Name(csv_files[j])]]

\* source holds the archives of source_logs by sorted name, present the names
\* still there; temp and filtered are the files of temp_extracted and
\* filtered_logs
ArchiveInit ==
    /\ \E n \in 0..MaxZips, mode \in Modes : \E source \in [1..n -> Archives] :
          arc = [pc |-> "start", mode |-> mode, source |-> source,
                 present |-> 1..n, zip_files |-> <<>>, i |-> 0,
                 temp |-> {}, filtered |-> {}, all_extracted_files |-> <<>>,
                 success_count |-> 0, error_count |-> 0, processed_count |-> 0,
                 raised |-> None]
    /\ arc_only

\* "zip_files = sorted(source_dir.glob('*.zip'))" and the early return
extract_all_zips_start ==
    /\ arc.pc = "start" /\ arc.mode = "extract_all_zips"
    /\ LET zip_files == [j \in 1..Cardinality(arc.present) |-> j] IN
       IF zip_files = <<>>
       THEN arc' = [arc EXCEPT !.pc = "returned"]
       ELSE arc' = [arc EXCEPT !.pc = "loop", !.zip_files = zip_files, !.i = 1]
    /\ UNCHANGED arc_frame

\* one iteration of "for zip_path in zip_files": ExtractError is caught and
\* counted
extract_all_zips_zip ==
    /\ arc.pc = "loop" /\ arc.i <= Len(arc.zip_files)
    /\ LET zip_path == arc.zip_files[arc.i]
           r == extract_zip(zip_path, arc.source[zip_path])
       IN  IF r.raised = None
           THEN arc' = [arc EXCEPT !.temp = @ \cup r.written,
                                   !.all_extracted_files = @ \o r.files,
                                   !.success_count = @ + 1, !.i = @ + 1]
           ELSE arc' = [arc EXCEPT !.temp = @ \cup r.written,
                                   !.error_count = @ + 1, !.i = @ + 1]
    /\ UNCHANGED arc_frame

\* "return all_extracted_files"
extract_all_zips_return ==
    /\ arc.pc = "loop" /\ arc.i > Len(arc.zip_files)
    /\ arc' = [arc EXCEPT !.pc = "returned"]
    /\ UNCHANGED arc_frame

\* the smallest name still in source_logs: sorted(...)[0]
FirstZip(present) == CHOOSE z \in present : \A y \in present : z <= y

\* one pass of "while True" in main: break when no archive is left, else
\* extract the first archive, filter its files, delete the archive and the
\* files; an exception of extract_zip leaves the loop and the try block
main_loop ==
    /\ arc.pc = "start" /\ arc.mode = "main"
    /\ IF arc.present = {}
       THEN arc' = [arc EXCEPT !.pc = "phase2"]
       ELSE LET current_zip == FirstZip(arc.present)
                r == extract_zip(current_zip, arc.source[current_zip])
            IN  IF r.raised # None
                THEN arc' = [arc EXCEPT !.pc = "except", !.raised = r.raised,
                                        !.temp = @ \cup r.written]
                ELSE arc' = [arc EXCEPT !.filtered = @ \cup Range(r.files),
                                        !.all_extracted_files = @ \o r.files,
                                        !.present = @ \ {current_zip},
                                        !.processed_count = @ + 1]
    /\ UNCHANGED arc_frame

\* "except Exception as e:" of main: the error is printed and main returns 1
main_except ==
    /\ arc.pc = "except"
    /\ arc' = [arc EXCEPT !.pc = "exit1"]
    /\ UNCHANGED arc_frame

ArchiveNext ==
    \/ extract_all_zips_start \/ extract_all_zips_zip \/ extract_all_zips_return
    \/ main_loop \/ main_except

SpecArchive == ArchiveInit /\ [][ArchiveNext]_vars

\* the batch function has returned, or Phase 1 of main is over
ArchiveDone == arc.pc \in {"returned", "phase2", "exit1"}

\* an archive that is a ZIP file with at least one CSV member, all readable
ValidArchive(archive) ==
    /\ ~archive.bad_zip
    /\ \E k \in DOMAIN archive.members : archive.members[k] = "csv"
    /\ \A k \in DOMAIN archive.members : archive.members[k] # "empty_csv"

\* the files of archive z were extracted and, in main, filtered
Processed(z) ==
    LET names == {<<z, k>> : k \in {j \in DOMAIN arc.source[z].members :
                                        arc.source[z].members[j] = "csv"}}
    IN  /\ names \subseteq Range(arc.all_extracted_files)
        /\ arc.mode = "main" => names \subseteq arc.filtered

\* C20: when the batch is over, every valid archive of the source directory
\* has been extracted and processed, whatever malformed, empty or CSV-less
\* archives stood beside it.
C20_AsClaimed ==
    ArchiveDone => \A z \in DOMAIN arc.source : ValidArchive(arc.source[z]) => Processed(z)

(***************************************************************************)
(* run.py, run_with_args.py: main, a whole pipeline run                    *)
(***************************************************************************)
MaxRunZips == 2       \* archives in source_logs
MaxRunMembers == 2    \* CSV members of one archive

\* the names a CSV member of an archive can have
RunNames == {"a.csv", "b.csv"}

\* a CSV member the csv module reads, and one with a field longer than
\* csv.field_size_limit(): pandas reads it, csv.reader raises on it
RunKinds == {"csv", "big"}

\* an archive of source_logs: bytes that are no ZIP file, or CSV members of
\* distinct names
RunArchives ==
    {[bad_zip |-> TRUE, members |-> <<>>, names |-> <<>>]} \cup
    UNION {{[bad_zip |-> FALSE, members |-> ks, names |-> ns] :
               ks \in [1..Len(ns) -> RunKinds]} :
           ns \in {l \in DistinctLists(RunNames) : Len(l) \in 1..MaxRunMembers}}

Entries == {"run.py", "run_with_args.py"}

\* the directories cleanup_all_directories removes
IntermediateDirs ==
    {"temp_extracted", "filtered_logs", "merged_logs", "reduced_logs", "routed_logs",
     "splitted_logs", "classified_logs", "protocol_extracted",
     "severity_level_extracted", "severity_extracted", "critical_only"}

\* where the product of a run is left: final_output by run_with_args.py,
\* critical_merged.csv in the project root by run.py
ProductDirs == {"final_output", "project_root"}

RunDirs == IntermediateDirs \cup ProductDirs

\* the common phases 2..9: the stage function, the directory it reads and the
\* directory it writes
CommonStages ==
    <<[fn |-> "merge_csv_files", src |-> "filtered_logs", dst |-> "merged_logs", cleanup |-> TRUE],
      [fn |-> "reduce_columns", src |-> "merged_logs", dst |-> "reduced_logs", cleanup |-> TRUE],
      [fn |-> "extract_routing", src |-> "reduced_logs", dst |-> "routed_logs", cleanup |-> TRUE],
      [fn |-> "split_ip", src |-> "routed_logs", dst |-> "splitted_logs", cleanup |-> TRUE],
      [fn |-> "classify_ip", src |-> "splitted_logs", dst |-> "classified_logs", cleanup |-> TRUE],
      [fn |-> "extract_protocol", src |-> "classified_logs", dst |-> "protocol_extracted", cleanup |-> TRUE],
      [fn |-> "extract_severity_level", src |-> "protocol_extracted",
       dst |-> "severity_level_extracted", cleanup |-> TRUE],
      [fn |-> "extract_severity", src |-> "severity_level_extracted",
       dst |-> "severity_extracted", cleanup |-> TRUE]>>

\* the phases after Phase 1, in the order main runs them; cleanup tells
\* whether cleanup_directory(src, "*.csv") follows the stage
StagesOf(entry) ==
    IF entry = "run.py"
    THEN CommonStages \o
         <<[fn |-> "filter_and_merge_critical", src |-> "severity_extracted",
            dst |-> "project_root", cleanup |-> TRUE]>>
    ELSE CommonStages \o
         <<[fn |-> "filter_critical", src |-> "severity_extracted",
            dst |-> "critical_only", cleanup |-> TRUE],
           [fn |-> "export_to_excel", src |-> "critical_only",
            dst |-> "final_output", cleanup |-> FALSE]>>

\* a directory that does not exist yet
NoDir == [exists |-> FALSE, files |-> <<>>]

\* the union of the row sets of the files of a directory
RowsIn(dir) == UNION {dir.files[f] : f \in DOMAIN dir.files}

\* a file is modelled by the set of the data rows it holds; the one data row
\* of member k of archive z is <<z, k>> and holds the keyword
RunInit ==
    /\ \E n \in 0..MaxRunZips, entry \in Entries : \E source \in [1..n -> RunArchives] :
          run = [pc |-> "phase1", entry |-> entry, source |-> source, present |-> 1..n,
                 dirs |-> [d \in RunDirs |-> NoDir],
                 processed_count |-> 0, order |-> <<>>, skipped |-> {},
                 k |-> 1, failed |-> FALSE, raised |-> None]
    /\ run_only

\* the files filter_keyword writes for the extracted members of archive z:
\* output_dir / csv_path.name, opened with 'w'
FilterOutputs(z, archive, files) ==
    LET ok == {j \in DOMAIN files : archive.members[files[j][2]] = "csv"}
        NameOf(j) == archive.names[files[j][2]]
    IN  [f \in {NameOf(j) : j \in ok} |->
            {files[j] : j \in {i \in ok : NameOf(i) = f}}]

\* the members on which filter_csv_by_keyword raises FilterError, which
\* filter_keyword catches and counts
FilterErrors(archive, files) ==
    {files[j] : j \in {i \in DOMAIN files : archive.members[files[i][2]] = "big"}}

\* a variant that leaves the archive in source_logs
cleanup_processed_files_keeps_zip(present, zip_path) == present

\* cleanup_processed_files: zip_path.unlink(), then csv_file.unlink() for the
\* extracted files; what is left in source_logs
cleanup_processed_files(present, zip_path) == present \ {zip_path}

\* one pass of "while True": break when no archive is left; else extract the
\* first archive, filter its files, and delete the archive and the files
run_phase1 ==
    /\ run.pc = "phase1"
    /\ run.processed_count <= MaxRunZips
    /\ IF run.present = {}
       THEN run' = [run EXCEPT !.pc = "stages", !.k = 1]
       ELSE LET current_zip == FirstZip(run.present)
                archive == run.source[current_zip]
                r == extract_zip(current_zip, archive)
                temp == [exists |-> TRUE, files |-> <<>>]
            IN  IF r.raised # None
                THEN run' = [run EXCEPT !.pc = "except", !.raised = r.raised,
                                        !.failed = TRUE,
                                        !.dirs = [@ EXCEPT !["temp_extracted"] = temp]]
                ELSE LET out == FilterOutputs(current_zip, archive, r.files)
                         errors == FilterErrors(archive, r.files)
                     IN  run' = [run EXCEPT
                            !.dirs = [@ EXCEPT
                               !["temp_extracted"] = temp,
                               !["filtered_logs"] =
                                   [exists |-> TRUE, files |-> out @@ @.files]],
                            !.skipped = @ \cup errors,
                            !.failed = @ \/ errors # {},
                            !.present = cleanup_processed_files(@, current_zip),
                            !.order = Append(@, current_zip),
                            !.processed_count = @ + 1]
    /\ UNCHANGED run_frame

\* what a stage function writes into its output directory for the files it
\* is given; hit tells whether rows of the target severity exist
StageOutput(fn, files, hit) ==
    LET rows == UNION {files[f] : f \in DOMAIN files} IN
    CASE fn = "merge_csv_files" ->
            IF rows = {} THEN <<>> ELSE "merged_001.csv" :> rows
      [] fn = "filter_and_merge_critical" ->
            IF rows = {} \/ ~hit THEN <<>> ELSE "critical_merged.csv" :> rows
      [] fn = "filter_critical" ->
            IF ~hit THEN <<>> ELSE [f \in {g \in DOMAIN files : files[g] # {}} |-> files[f]]
      [] OTHER -> files

\* cleanup_directory(directory, "*.csv"): the files go, the directory stays
cleanup_directory(dir) == IF dir.exists THEN [dir EXCEPT !.files = <<>>] ELSE dir

\* one phase after Phase 1: the stage runs on sorted(src.glob("*.csv")) when
\* that list is not empty, and cleanup_directory follows; an exception of
\* the stage function leaves the try block
run_stage ==
    /\ run.pc = "stages"
    /\ run.k <= Len(StagesOf(run.entry))
    /\ LET stage == StagesOf(run.entry)[run.k]
           files == run.dirs[stage.src].files
           Cleaned(dirs) ==
              IF stage.cleanup
              THEN [dirs EXCEPT ![stage.src] = cleanup_directory(@)]
              ELSE dirs
       IN  IF DOMAIN files = {}
           THEN run' = [run EXCEPT !.dirs = Cleaned(@), !.k = @ + 1]
           ELSE \E ok, hit \in BOOLEAN :
                  IF ~ok
                  THEN run' = [run EXCEPT
                          !.pc = "except", !.raised = stage.fn, !.failed = TRUE,
                          !.dirs = [@ EXCEPT ![stage.dst] = [@ EXCEPT !.exists = TRUE]]]
                  ELSE run' = [run EXCEPT
                          !.dirs = Cleaned([@ EXCEPT ![stage.dst] =
                              [exists |-> TRUE,
                               files |-> StageOutput(stage.fn, files, hit) @@ @.files]]),
                          !.k = @ + 1]
    /\ UNCHANGED run_frame

\* cleanup_all_directories: shutil.rmtree on each target directory there is
cleanup_all_directories(dirs) ==
    [d \in DOMAIN dirs |-> IF d \in IntermediateDirs THEN NoDir ELSE dirs[d]]

\* the end of the try block: Phase 12 in run_with_args.py, then "return 0"
run_return ==
    /\ run.pc = "stages"
    /\ run.k > Len(StagesOf(run.entry))
    /\ run' = [run EXCEPT
                 !.pc = "exit0",
                 !.dirs = IF run.entry = "run_with_args.py"
                          THEN cleanup_all_directories(@) ELSE @]
    /\ UNCHANGED run_frame

\* "except Exception as e: ... return 1"
run_except ==
    /\ run.pc = "except"
    /\ run' = [run EXCEPT !.pc = "exit1"]
    /\ UNCHANGED run_frame

RunNext == run_phase1 \/ run_stage \/ run_return \/ run_except

SpecRun == RunInit /\ [][RunNext]_vars

RunExited == run.pc \in {"exit0", "exit1"}

\* C21: a run in which any stage failed, a file of the keyword filter
\* included, ends with a non-zero exit code; exit code 0 means that every
\* stage completed without error.
C21_AsClaimed == RunExited => (run.failed <=> run.pc = "exit1")

\* C22: a run that exits with code 0 leaves none of the intermediate
\* directories behind.
C22_AsClaimed ==
    run.pc = "exit0" => \A d \in IntermediateDirs : ~run.dirs[d].exists

\* C23: an extracted file on which the keyword filter failed, and the
\* archive it came from, are not deleted: the archive is still in
\* source_logs.
C23_AsClaimed == \A m \in run.skipped : m[1] \in run.present

PhaseOneOver == run.pc # "phase1"

\* C28: when the Phase 1 loop is over, filtered_logs holds the matching rows
\* of every file the keyword filter wrote for every processed archive.
C28_AsClaimed ==
    (run.pc = "stages" /\ run.k = 1) =>
        \A z \in Range(run.order) : \A k \in DOMAIN run.source[z].members :
            run.source[z].members[k] = "csv" =>
                <<z, k>> \in RowsIn(run.dirs["filtered_logs"])

\* the loop of Phase 1 under weak fairness: a run that can take a step takes it
SpecRunFair == SpecRun /\ WF_vars(RunNext)

\* the archives taken so far, in ascending name order and each once, are the
\* ones gone from source_logs, and they were counted
PhaseOneProgress ==
    /\ Len(run.order) = run.processed_count
    /\ run.processed_count <= Len(run.source)
    /\ \A i, j \in DOMAIN run.order : i < j => run.order[i] < run.order[j]
    /\ run.present = DOMAIN run.source \ Range(run.order)

\* C29: the Phase 1 loop takes the archives in sorted-name order, each at
\* most once, deletes the archive of every pass that does not abort, and
\* ends after at most n passes with no archive left or with the run aborted.
C29_LoopTerminates ==
    /\ [](run.pc # "idle" => PhaseOneProgress)
    /\ <>PhaseOneOver
    /\ [](run.pc = "stages" => run.present = {})

\* both of two archives have been taken, in name order, and Phase 1 is over
C29_Witness ==
    /\ run.pc = "stages" /\ run.k = 1
    /\ run.order = <<1, 2>>
    /\ run.present = {}

(***************************************************************************)
(* The order in which a stage function takes the files of its list         *)
(***************************************************************************)
MaxOrdFiles == 3    \* paths are 1..MaxOrdFiles, ordered as Path orders them

\* the stage functions whose loop is "for input_file in sorted(input_files)"
SortingStages ==
    {"merge_csv_files", "reduce_columns", "extract_routing", "split_ip", "classify_ip"}

\* the stage functions whose loop is "for input_path in input_files"
ListOrderStages ==
    {"filter_keyword", "extract_protocol", "extract_severity_level", "extract_severity",
     "filter_critical", "filter_and_merge_critical"}

\* the list the loop of the stage function runs over
LoopOrder(fn, input_files) ==
    IF fn \in SortingStages THEN sorted(input_files) ELSE input_files

\* taken lists the files in the order the loop took them; output lists, for
\* a one-to-one stage, the paths appended to the returned list and, for a
\* many-to-one stage, the files whose rows were appended to the output
OrderInit ==
    /\ \E fn \in SortingStages \cup ListOrderStages,
          input_files \in DistinctLists(1..MaxOrdFiles) :
          ord = [pc |-> "start", fn |-> fn, input_files |-> input_files,
                 files |-> <<>>, i |-> 0, taken |-> <<>>, output |-> <<>>]
    /\ ord_only

\* "if not input_files: return", else the loop starts
order_start ==
    /\ ord.pc = "start"
    /\ IF ord.input_files = <<>>
       THEN ord' = [ord EXCEPT !.pc = "done"]
       ELSE ord' = [ord EXCEPT !.pc = "loop", !.i = 1,
                               !.files = LoopOrder(ord.fn, ord.input_files)]
    /\ UNCHANGED ord_frame

\* one iteration of the loop: the file is read and its output appended
order_file ==
    /\ ord.pc = "loop"
    /\ ord.i <= Len(ord.files)
    /\ ord' = [ord EXCEPT !.taken = Append(@, ord.files[ord.i]),
                          !.output = Append(@, ord.files[ord.i]),
                          !.i = @ + 1]
    /\ UNCHANGED ord_frame

\* the return after the loop
order_return ==
    /\ ord.pc = "loop"
    /\ ord.i > Len(ord.files)
    /\ ord' = [ord EXCEPT !.pc = "done"]
    /\ UNCHANGED ord_frame

OrderNext == order_start \/ order_file \/ order_return

SpecOrder == OrderInit /\ [][OrderNext]_vars

\* C24: whatever the order of the list passed in, a stage takes the files in
\* sorted-name order, and the returned list (for a many-to-one stage, the
\* rows of the output) follows that order.
C24_AsClaimed ==
    ord.pc = "done" =>
        /\ ord.taken = sorted(ord.input_files)
        /\ ord.output = sorted(ord.input_files)

(***************************************************************************)
(* The two severity-filter modes on the same input                         *)
(***************************************************************************)
\* filter_and_merge_critical and filter_critical are given the same files;
\* the target severity reaches filter_critical as severity_filter and
\* filter_and_merge_critical as run.py and run_gui.py pass it (see FcmInit)
ModesInit ==
    /\ \E n \in 0..MaxFcmFiles, kw \in {<<>>} \cup {<<t>> : t \in SeverityOptions} :
       \E shape \in [1..n -> FcmShapes] :
          LET input_files == [i \in 1..n |-> i]
              fs == [p \in 1..n |-> FcmFile(p, shape[p])]
          IN  /\ fcm = [pc |-> "start", input_files |-> input_files, fs |-> fs,
                        kwargs |-> kw, i |-> 0,
                        critical_dataframes |-> <<>>, columns |-> <<>>,
                        total_rows |-> 0, critical_rows |-> 0,
                        out |-> <<>>, result |-> None, raised |-> None]
              /\ fcr = [pc |-> "start", input_files |-> input_files, fs |-> fs,
                        severity_filter |-> IF kw = <<>> THEN CRITICAL ELSE kw[1],
                        i |-> 0, output_files |-> <<>>, out |-> <<>>,
                        total_rows |-> 0, critical_rows |-> 0,
                        result |-> <<>>, raised |-> None]
    /\ mrg = Idle /\ fk = Idle /\ cls = Idle /\ spl = Idle /\ stg = Idle
    /\ rte = Idle /\ red = Idle /\ arc = Idle /\ run = Idle /\ ord = Idle

ModesNext == FcmNext \/ FilterCriticalNext

SpecModes == ModesInit /\ [][ModesNext]_vars

\* both calls are over and filter_critical has returned
ModesOver == FcmOver /\ fcr.pc = "done" /\ fcr.raised = None

\* the data rows of the files filter_critical wrote, in the returned order
FilterCriticalRows ==
    Flatten([j \in DOMAIN fcr.result |-> Tail(fcr.out[fcr.result[j]])])

\* the data rows filter_and_merge_critical wrote
MergedRows == IF fcm.out = <<>> THEN <<>> ELSE Tail(fcm.out[1])

\* C26: for the same input files and the same target severity, the rows
\* written by filter_critical, its files taken in the returned order, are
\* the rows written by filter_and_merge_critical, and filter_critical
\* returns the empty list exactly when filter_and_merge_critical returns
\* None.
C26_AsClaimed ==
    ModesOver =>
        /\ FilterCriticalRows = MergedRows
        /\ fcr.result = <<>> <=> (fcm.raised = None /\ fcm.result = None)

(***************************************************************************)
(* merge_files.py: input tables that cannot be used                        *)
(***************************************************************************)
MergeOver == mrg.pc \in {"done", "error"}

\* C25: when every listed file exists, an input table that is empty or
\* malformed at read time is skipped: merge_csv_files returns, and the
\* chunks hold all data rows of the remaining input tables.
C25_AsClaimed ==
    (MergeOver /\ \A p \in Range(mrg.input_files) : mrg.fs[p].exists) =>
        /\ mrg.pc = "done"
        /\ Flatten(ChunkRows(mrg)) = DataRowsFrom(mrg, 1)

(***************************************************************************)
(* filter_keyword.py: a file that cannot be filtered                       *)
(***************************************************************************)
\* the sum of Len(out[p]) - 1 over the files written: the match counts of
\* the files that succeeded
RECURSIVE WrittenTotal(_, _)
WrittenTotal(out, S) ==
    IF S = {} THEN 0
    ELSE LET p == CHOOSE q \in S : TRUE IN (Len(out[p]) - 1) + WrittenTotal(out, S \ {p})

ColumnAddingStages == {"extract_routing", "split_ip", "classify_ip"}

\* the positions, in an output row, of the columns the stage inserts
InsertedAt(stage) ==
    CASE stage = "extract_routing" -> {4}
      [] stage = "split_ip" -> {5, 6}
      [] stage = "classify_ip" -> {6, 8}

\* the least number of fields of a data row the stage takes: "if len(row) >= n"
AcceptedWidth(stage) ==
    CASE stage = "extract_routing" -> 4
      [] stage = "split_ip" -> 5
      [] stage = "classify_ip" -> 7

RECURSIVE WithoutPositions(_, _, _)
\* the row without the fields at the positions S, counted from position i
WithoutPositions(row, S, i) ==
    IF row = <<>> THEN <<>>
    ELSE (IF i \in S THEN <<>> ELSE <<Head(row)>>) \o WithoutPositions(Tail(row), S, i + 1)

RECURSIVE AcceptedRows(_, _)
\* the data rows the stage takes, in file order
AcceptedRows(rows, n) ==
    IF rows = <<>> THEN <<>>
    ELSE (IF Len(Head(rows)) >= n THEN <<Head(rows)>> ELSE <<>>) \o AcceptedRows(Tail(rows), n)

\* C30: routing extraction, address splitting and address classification
\* only add: every row the stage accepts, the header included, comes out
\* with all its fields, unchanged and in order, around the inserted
\* column(s), whatever its width.
C30_AsClaimed ==
    (StageWrote /\ stg.stage \in ColumnAddingStages) =>
        LET given == (IF HasHeader(stg.input) THEN <<stg.input[1]>> ELSE <<>>)
                     \o AcceptedRows(DataLines(stg.input), AcceptedWidth(stg.stage))
        IN  /\ Len(stg.output) = Len(given)
            /\ \A k \in DOMAIN given :
                  WithoutPositions(stg.output[k], InsertedAt(stg.stage), 1) = given[k]

====
